---- MODULE Spec2Model ----
(***************************************************************************)
(* State-machine model of the capture-the-flag squad controller            *)
(* (src/main.mjs).  One call of loop() is one tick; the tick is a fixed    *)
(* sequence of passes driven by pc:                                        *)
(*   refreshWorldState -> first-tick initialisation -> periodic role       *)
(*   re-evaluation -> precomputeRoleLists -> assignTowerChargers           *)
(*   (release pass, assign pass) -> commandLayer -> executeTick per unit.  *)
(* Between two ticks the game engine changes the world (EngineStep).       *)
(***************************************************************************)
EXTENDS Integers, Sequences, FiniteSets, TLC

\* ------------------------------------------------------------------ bounds
MaxUnits == 5
MaxEnemies == 1
MaxTick == 2
ScenarioUnits == 10
ScenarioEnemies == 3

\* ------------------------------------------------------- program constants
ROLE_VANGUARD == "vanguard"
ROLE_RANGER == "ranger"
ROLE_MEDIC == "medic"
ROLE_SENTINEL == "sentinel"
ROLE_RUNNER == "runner"
NoRole == "none"

\* ratios are kept as percentages: 0.30 is 30, compared by cross-multiplying
RETREAT_HP_RATIO == 30
PULLBACK_HP_RATIO == 65
TANK_FLOOR_RATIO == 40
TOWER_CHARGE_THRESHOLD == 80
ROLE_REEVAL_TICKS == 30
PHASE_EXPAND_END == 150
TOWER_ASSIGN_RADIUS == 12
MOSQUITO_DETECT_RANGE == 12
STICKY_TICKS == 40
MAX_RUNNERS == 2

ATTACK == "attack"
RANGED_ATTACK == "ranged_attack"
HEAL == "heal"
MOVE == "move"
CARRY == "carry"
TOUGH == "tough"

\* ------------------------------------------------------------ identifiers
\* ids of the roster of a match, and every creep id the model knows
RosterIds == 1..MaxUnits
UnitIds == 1..(IF MaxUnits >= ScenarioUnits THEN MaxUnits ELSE ScenarioUnits)
MatchEnemies == 1..MaxEnemies
EnemyIds == 1..(IF MaxEnemies >= ScenarioEnemies THEN MaxEnemies ELSE ScenarioEnemies)
FlagIds == 1..3
TowerIds == 1..2
ContainerIds == 1..1
None == 0

\* ------------------------------------------------------------- sequences
Max2(a, b) == IF a >= b THEN a ELSE b
Min2(a, b) == IF a <= b THEN a ELSE b
Abs(a) == IF a < 0 THEN -a ELSE a
Range(s) == {s[i] : i \in DOMAIN s}

RECURSIVE SetToSeq(_)
\* the ids of a set in ascending order (the order of getObjectsByPrototype)
SetToSeq(S) ==
  IF S = {} THEN <<>>
  ELSE LET m == CHOOSE x \in S : \A y \in S : x <= y
       IN <<m>> \o SetToSeq(S \ {m})

RECURSIVE SumSeq(_, _)
\* the sum of f[x] over the elements x of s
SumSeq(s, f) == IF s = <<>> THEN 0 ELSE f[Head(s)] + SumSeq(Tail(s), f)

RECURSIVE InsertDesc(_, _, _)
\* insert x after every element whose key is >= key[x]: a stable descending sort
InsertDesc(x, s, key) ==
  IF s = <<>> THEN <<x>>
  ELSE IF key[Head(s)] >= key[x] THEN <<Head(s)>> \o InsertDesc(x, Tail(s), key)
       ELSE <<x>> \o s

RECURSIVE SortDesc(_, _)
\* Array.prototype.sort((a, b) => key[b] - key[a]): stable, descending by key
SortDesc(s, key) ==
  IF s = <<>> THEN <<>>
  ELSE InsertDesc(s[Len(s)], SortDesc(SubSeq(s, 1, Len(s) - 1), key), key)

\* Math.round of num/den for num >= 0, den > 0 (rounds half up)
RoundDiv(num, den) == (2 * num + den) \div (2 * den)

\* ------------------------------------------------------------- the world
VARIABLES
  wAlive,        \* ids of the owned creeps the engine holds
  wBody,         \* id -> body loadout (creep.body, front part first)
  wSpawning,     \* those of them still being spawned
  wHits,         \* id -> hits
  wPos,          \* id -> [x, y]
  wEnergy,       \* id -> carried energy
  wEnemies,      \* enemy id -> [alive, hits, pos, body]
  wFlagOwner,    \* flag id -> "my" | "enemy" | "neutral", "absent" for no such flag
  wTowers,       \* tower id -> [exists, owner, used, cap]
  wContainers,   \* container id -> stored energy
  wFatigue,      \* ids of the owned creeps whose fatigue is above 0
  wBodyParts,    \* the tiles of the body parts on the ground, in engine order
  wCornered      \* ids of the owned creeps for which a flee search finds no path

\* ------------------------------------------------------ persistent state
VARIABLES
  tick, initialized,
  myCreeps,             \* ids of the owned creeps of the last snapshot, in order
  creepRoles,           \* id -> role, NoRole when the id has no entry
  towerChargeAssigned,  \* tower id -> charger id, None when no entry
  chargerToTower,       \* charger id -> tower id, None when no entry
  chargerState,         \* charger id -> "WITHDRAW" | "DELIVER", "none" when no entry
  creepTargets,         \* id -> target, Absent when the id has no entry
  globalFocusTarget,    \* enemy id or None
  currentTank,          \* creep id or None
  myVanguards, myRangers, myMedics, myRunners,
  pc,                   \* the pass of loop() that runs next
  loopIdx,              \* position of the per-unit loop in myCreeps
  retreating,           \* ids for which shouldRetreat held in this tick's executeTick
  movedBy,              \* id -> the resolver that filled the move slot this tick
  combatAct,            \* id -> the action doCombatAction issued this tick
  calls,                \* id -> the resolvers executeTick called this tick, in order
  issued,               \* id -> the engine calls made for the creep this tick, in order
  passes,               \* the passes loop() ran this tick, in order
  deathEvents,          \* diag.deathEvents: [id, role] of every death detected
  lostChargers,         \* [id, tower] of the chargers the last snapshot found dead
  released,             \* the towers the last release pass unbound
  freed,                \* [id, tower] of the chargers it unbound because the tower was charged
  influenceMatrix,      \* tile -> cost, NullMatrix before the first build
  lastInfluenceTick,    \* the tick of the last build
  fieldBuilds,          \* how many times buildInfluenceMap ran in this tick
  prevTank,             \* the tank designation the last commandLayer found
  armyObjective,        \* the objective the last commandLayer gave the main army
  objectiveFlags        \* the flag ownership that commandLayer saw

ground == <<wFatigue, wBodyParts, wCornered>>
world == <<wAlive, wBody, wSpawning, wHits, wPos, wEnergy, wEnemies, wFlagOwner, wTowers,
           wContainers, ground>>
tables == <<creepRoles, towerChargeAssigned, chargerToTower, chargerState>>
lists == <<myVanguards, myRangers, myMedics, myRunners>>
field == <<influenceMatrix, lastInfluenceTick, fieldBuilds>>
vars == <<world, tick, initialized, myCreeps, tables, creepTargets, globalFocusTarget,
          currentTank, lists, pc, loopIdx, retreating, movedBy, combatAct, calls, issued, passes,
          deathEvents, lostChargers, released, freed, field, prevTank, armyObjective, objectiveFlags>>

\* ------------------------------------------------- static data of the arena
\* the body loadouts of the roster
Loadouts ==
  << <<CARRY, ATTACK, MOVE>>,
     <<CARRY, ATTACK, MOVE>>,
     <<ATTACK, ATTACK, MOVE, MOVE>>,
     <<TOUGH, ATTACK, MOVE, MOVE>>,
     <<HEAL, HEAL, MOVE>>,
     <<RANGED_ATTACK, RANGED_ATTACK, MOVE>> >>
MeleeLoadouts ==
  << <<ATTACK, MOVE>>,
     <<ATTACK, ATTACK, MOVE, MOVE>>,
     <<TOUGH, ATTACK, MOVE, MOVE, MOVE>> >>
BodyOf(id) == wBody[id]
EnemyLoadout(e) == IF e % 2 = 1 THEN <<RANGED_ATTACK, HEAL, MOVE>> ELSE <<ATTACK, ATTACK, MOVE>>
EnemyBodyOf(e) == wEnemies[e].body

PartHits == 100
CarryCapacity == 50
HitsMax(id) == PartHits * Len(BodyOf(id))
EnemyHitsMax(e) == PartHits * Len(EnemyBodyOf(e))
\* the engine takes damage from the front parts first: hits of part i of a body of n parts
PartHitsOf(n, hits, i) ==
  LET damage == PartHits * n - hits
  IN PartHits - Min2(PartHits, Max2(0, damage - PartHits * (i - 1)))

Pt(px, py) == [x |-> px, y |-> py]
UnitTiles == {Pt(14, 5), Pt(15, 5), Pt(16, 5)}
EnemyTiles == {Pt(8, 5), Pt(17, 5)}
FlagPos(f) == CASE f = 1 -> Pt(2, 5) [] f = 2 -> Pt(10, 5) [] OTHER -> Pt(20, 5)
TowerPos(t) == IF t = 1 THEN Pt(3, 5) ELSE Pt(4, 9)
ContainerPos(c) == Pt(5, 5)
HitLevels == {20, 30, 40, 100}    \* percent of hitsMax
TowerLevels == {0, 40, 50}
EnergyLevels == {0, 25, 50}

\* ------------------------------------------------ 2 body introspection helpers
countParts(id, type) == Cardinality({i \in DOMAIN BodyOf(id) : BodyOf(id)[i] = type})
countActive(id, type) ==
  Cardinality({i \in DOMAIN BodyOf(id) :
      BodyOf(id)[i] = type /\ PartHitsOf(Len(BodyOf(id)), wHits[id], i) > 0})
hasActive(id, type) == countActive(id, type) > 0
enemyCountActive(e, type) ==
  Cardinality({i \in DOMAIN EnemyBodyOf(e) :
      EnemyBodyOf(e)[i] = type /\ PartHitsOf(Len(EnemyBodyOf(e)), wEnemies[e].hits, i) > 0})

getRange(a, b) == Max2(Abs(a.x - b.x), Abs(a.y - b.y))

\* the snapshot lists that refreshWorldState reads from the engine
enemies == SelectSeq(SetToSeq(EnemyIds), LAMBDA e : wEnemies[e].alive)
allFlags == SelectSeq(SetToSeq(FlagIds), LAMBDA f : wFlagOwner[f] # "absent")
neutralFlags == SelectSeq(allFlags, LAMBDA f : wFlagOwner[f] = "neutral")
enemyFlags == SelectSeq(allFlags, LAMBDA f : wFlagOwner[f] = "enemy")
myOwnedFlags == SelectSeq(allFlags, LAMBDA f : wFlagOwner[f] = "my")
myFlag == IF myOwnedFlags = <<>> THEN None ELSE Head(myOwnedFlags)
allTowers == SelectSeq(SetToSeq(TowerIds), LAMBDA t : wTowers[t].exists)
myTowers == SelectSeq(allTowers, LAMBDA t : wTowers[t].owner = "my")
containers == SetToSeq(ContainerIds)
\* getObjectById of a tower id: the object, or null once the engine dropped it
towerExists(t) == wTowers[t].exists

\* ------------------------------------------ 3 role classification & assignment
classifyCreep(id) ==
  LET a == countParts(id, ATTACK)
      r == countParts(id, RANGED_ATTACK)
      h == countParts(id, HEAL)
  IN IF h > 0 /\ h >= a /\ h >= r THEN ROLE_MEDIC
     ELSE IF r > 0 /\ r >= a THEN ROLE_RANGER
     ELSE IF a > 0 THEN ROLE_VANGUARD
     ELSE IF h > 0 THEN ROLE_MEDIC
     ELSE IF r > 0 THEN ROLE_RANGER
     ELSE ROLE_VANGUARD

\* the role table after assignRoles ran over the snapshot
assignRoles ==
  LET classified == [id \in UnitIds |->
                       IF id \in Range(myCreeps) THEN classifyCreep(id) ELSE creepRoles[id]]
      vanguardList == SortDesc(SelectSeq(myCreeps, LAMBDA c : classified[c] = ROLE_VANGUARD),
                               [id \in UnitIds |-> countParts(id, MOVE)])
      numRunners == Min2(MAX_RUNNERS, Len(vanguardList))
      runners == {vanguardList[i] : i \in 1..numRunners}
  IN [id \in UnitIds |-> IF id \in runners THEN ROLE_RUNNER ELSE classified[id]]

\* ids of the role table that the snapshot no longer holds
StaleRoleIds == {id \in UnitIds : creepRoles[id] # NoRole /\ id \notin Range(myCreeps)}

\* the role table after the prune of reevaluateRoles
PrunedRoles == [id \in UnitIds |-> IF id \in StaleRoleIds THEN NoRole ELSE creepRoles[id]]

roleCount(roles, role) == Cardinality({id \in UnitIds : roles[id] = role})

\* reevaluateRoles without its promotions
reevaluatePruneOnly == PrunedRoles
\* the role table after reevaluateRoles: prune, then the three promotions; counts is
\* taken once, after the prune, and is not refreshed between the promotions
reevaluateRoles ==
  LET r0 == PrunedRoles
      noVanguard == roleCount(r0, ROLE_VANGUARD) = 0
      nRangers == roleCount(r0, ROLE_RANGER)
      rangers == SelectSeq(myCreeps, LAMBDA c : r0[c] = ROLE_RANGER)
      bestRanger == Head(SortDesc(rangers, [id \in UnitIds |-> countParts(id, ATTACK)]))
      r1 == IF noVanguard /\ nRangers > 1 /\ rangers # <<>>
            THEN [r0 EXCEPT ![bestRanger] = ROLE_VANGUARD] ELSE r0
      candidates == SelectSeq(myCreeps,
                        LAMBDA c : r1[c] = ROLE_RANGER /\ countParts(c, HEAL) > 0)
      bestHealer == Head(SortDesc(candidates, [id \in UnitIds |-> countParts(id, HEAL)]))
      r2 == IF roleCount(r0, ROLE_MEDIC) = 0 /\ nRangers > 2 /\ candidates # <<>>
            THEN [r1 EXCEPT ![bestHealer] = ROLE_MEDIC] ELSE r1
      runnerList == SelectSeq(myCreeps, LAMBDA c : r2[c] = ROLE_RUNNER)
      r3 == IF noVanguard /\ roleCount(r0, ROLE_RUNNER) > 1 /\ runnerList # <<>>
            THEN [r2 EXCEPT ![Head(runnerList)] = ROLE_VANGUARD] ELSE r2
  IN r3

\* the charger tables after a set of ids was dropped the way refreshWorldState and
\* reevaluateRoles drop a dead creep: its tower's entry, its own entry, its FSM state
towersKept(ids) == towerChargeAssigned
chargersKept(ids) == chargerToTower
towersWithout(ids) ==
  [t \in TowerIds |->
     IF \E id \in ids : chargerToTower[id] = t THEN None ELSE towerChargeAssigned[t]]
chargersWithout(ids) == [id \in UnitIds |-> IF id \in ids THEN None ELSE chargerToTower[id]]
statesWithout(ids) == [id \in UnitIds |-> IF id \in ids THEN "none" ELSE chargerState[id]]

\* --------------------------------------------------- 1 world state refresh
\* creeps of the previous snapshot that the engine no longer holds
DeadIds == Range(myCreeps) \ wAlive

RolesDropNothing(ids) == creepRoles
\* creepRoles.delete(id) for every vanished creep
RolesAfterDeaths(ids) == [id \in UnitIds |-> IF id \in ids THEN NoRole ELSE creepRoles[id]]

\* the order of loop() with the commander pass moved behind the per-unit loop
passAfterUnitsFirst(p) ==
  CASE p = "refresh" -> "init"
    [] p = "init" -> "reeval"
    [] p = "reeval" -> "precompute"
    [] p = "precompute" -> "influence"
    [] p = "influence" -> "release"
    [] p = "release" -> "assign"
    [] p = "assign" -> "units"
    [] p = "units" -> "command"
    [] p = "command" -> "engine"
\* the order of loop(): the pass that follows pass p
passAfter(p) ==
  CASE p = "refresh" -> "init"
    [] p = "init" -> "reeval"
    [] p = "reeval" -> "precompute"
    [] p = "precompute" -> "influence"
    [] p = "influence" -> "release"
    [] p = "release" -> "assign"
    [] p = "assign" -> "command"
    [] p = "command" -> "units"
    [] p = "units" -> "engine"

\* what a creep was told to do: an engine call and its target
Act(k, t) == [kind |-> k, target |-> t]
NoAction == Act("none", None)

\* getTicks(): loop() runs once per tick, from tick 1 on
getTicks == tick + 1

refreshWorldState ==
  /\ pc = "refresh"
  /\ tick' = getTicks
  /\ myCreeps' = SetToSeq(wAlive)
  /\ creepRoles' = RolesAfterDeaths(DeadIds)
  /\ currentTank' = IF currentTank \in DeadIds THEN None ELSE currentTank
  /\ towerChargeAssigned' = towersWithout(DeadIds)
  /\ chargerToTower' = chargersWithout(DeadIds)
  /\ chargerState' = statesWithout(DeadIds)
  /\ retreating' = {}
  /\ movedBy' = [id \in UnitIds |-> "none"]
  /\ combatAct' = [id \in UnitIds |-> NoAction]
  /\ calls' = [id \in UnitIds |-> <<>>]
  /\ issued' = [id \in UnitIds |-> <<>>]
  /\ passes' = <<"snapshot">>
  /\ deathEvents' = deathEvents \cup
       {[id |-> id, role |-> IF creepRoles[id] = NoRole THEN "unknown" ELSE creepRoles[id]] :
          id \in DeadIds}
  /\ lostChargers' = {[id |-> id, tower |-> chargerToTower[id]] :
                        id \in {d \in DeadIds : chargerToTower[d] # None}}
  /\ fieldBuilds' = 0
  /\ pc' = passAfter("refresh")
  /\ UNCHANGED <<world, initialized, creepTargets, globalFocusTarget, lists, loopIdx,
                 released, freed, influenceMatrix, lastInfluenceTick, prevTank,
                 armyObjective, objectiveFlags>>

\* ------------------------------------------------------- engine queries
\* findInRange(origin, list, r) over a list of ids whose positions pos gives
findInRange(origin, list, pos, r) == SelectSeq(list, LAMBDA o : getRange(origin, pos[o]) <= r)
\* findClosestByRange(origin, list): the first element of the least range, None on []
findClosestByRange(origin, list, pos) ==
  IF list = <<>> THEN None
  ELSE list[CHOOSE i \in DOMAIN list :
              \A j \in DOMAIN list :
                 \/ getRange(origin, pos[list[i]]) < getRange(origin, pos[list[j]])
                 \/ getRange(origin, pos[list[i]]) = getRange(origin, pos[list[j]]) /\ i <= j]
enemyPos == [e \in EnemyIds |-> wEnemies[e].pos]
flagPos == [f \in FlagIds |-> FlagPos(f)]

\* ------------------------------------------------ 4 threat assessment engine
ATTACK_POWER == 30
RANGED_ATTACK_POWER == 10
HEAL_POWER == 12
\* threatScore(enemy) times hitsMax, so that it stays an integer
threatScoreScaled(e) ==
  (enemyCountActive(e, ATTACK) * ATTACK_POWER
     + enemyCountActive(e, RANGED_ATTACK) * RANGED_ATTACK_POWER
     + enemyCountActive(e, HEAL) * HEAL_POWER) * EnemyHitsMax(e) + wEnemies[e].hits

\* the kill-secured test made always false
neverSecured(e) == FALSE
\* the unhealed test made always true
alwaysUnhealed(e) == TRUE
threatsMedic(e) == \E i \in DOMAIN myMedics : getRange(enemyPos[e], wPos[myMedics[i]]) <= 4
killSecured(e) == wEnemies[e].hits <= 100
unhealed(e) ==
  ~ \E i \in DOMAIN enemies :
       /\ enemies[i] # e
       /\ enemyCountActive(enemies[i], HEAL) > 0
       /\ getRange(enemyPos[enemies[i]], enemyPos[e]) <= 5
isHealer(e) == enemyCountActive(e, HEAL) > 0

\* the comparator of selectFocusTarget: a sorts strictly before b
focusBefore(a, b) ==
  IF threatsMedic(a) # threatsMedic(b) THEN threatsMedic(a)
  ELSE IF killSecured(a) # killSecured(b) THEN killSecured(a)
  ELSE IF unhealed(a) # unhealed(b) THEN unhealed(a)
  ELSE IF isHealer(a) # isHealer(b) THEN isHealer(a)
  ELSE IF wEnemies[a].hits * EnemyHitsMax(b) # wEnemies[b].hits * EnemyHitsMax(a)
       THEN wEnemies[a].hits * EnemyHitsMax(b) < wEnemies[b].hits * EnemyHitsMax(a)
  ELSE threatScoreScaled(a) * EnemyHitsMax(b) > threatScoreScaled(b) * EnemyHitsMax(a)

\* eligible.slice().sort(cmp)[0]: the sort is stable, so the first element that no
\* other element sorts before
selectFocusTarget(eligible) ==
  IF eligible = <<>> THEN None
  ELSE IF Len(eligible) = 1 THEN eligible[1]
  ELSE eligible[CHOOSE i \in DOMAIN eligible :
                  /\ \A j \in DOMAIN eligible : ~focusBefore(eligible[j], eligible[i])
                  /\ \A k \in 1..(i - 1) :
                        \E j \in DOMAIN eligible : focusBefore(eligible[j], eligible[k])]

\* ------------------------------------------------------- 5 influence map
INFLUENCE_REFRESH_TICKS == 3
ENEMY_THREAT_RADIUS == 6
TOWER_RANGE == 50
TOWER_THREAT_WEIGHT == 20      \* percent
WALL_REPEL_DIST == 8
\* lastInfluenceTick before the first build: -Infinity
MinusInfinity == 0 - 1000000
\* influenceMatrix before the first build: null
NullMatrix == <<>>

\* the terrain of the arena: plain but for a wall tile and two swamp tiles
WallTiles == {Pt(47, 50)}
SwampTiles == {Pt(53, 50), Pt(54, 50)}
getTerrainAt(p) ==
  IF p \in WallTiles THEN "wall" ELSE IF p \in SwampTiles THEN "swamp" ELSE "plain"
\* the tiles of the cost matrix that are followed: a row near the arena edge, where the
\* creeps, flags and towers stand, and a row across the middle of the arena
FieldTiles == {Pt(x, 5) : x \in 0..20} \cup {Pt(x, 50) : x \in 42..57}

enemyTowers == SelectSeq(allTowers, LAMBDA t : wTowers[t].owner = "enemy")

\* what the threat loop of enemy e computes for a tile p that it writes: base + penalty,
\* penalty being Math.min(200, Math.floor(t / (dist + 1) * 0.4)), t = Math.max(1, threatScore)
threatCost(e, p) ==
  LET dist == getRange(enemyPos[e], p)
      t == Max2(EnemyHitsMax(e), threatScoreScaled(e))
      penalty == Min2(200, (2 * t) \div (5 * EnemyHitsMax(e) * (dist + 1)))
      base == IF getTerrainAt(p) = "swamp" THEN 10 ELSE 2
  IN base + penalty
\* the tiles that loop would write without its radius test
threatCoversAnywhere(e, p) == getTerrainAt(p) # "wall"
\* the tiles that loop writes: within the radius and no wall
threatCovers(e, p) ==
  getRange(enemyPos[e], p) <= ENEMY_THREAT_RADIUS /\ getTerrainAt(p) # "wall"

RECURSIVE threatField(_, _, _)
\* the value of tile p after the loop over the enemies of list, cur being its value before
threatField(list, p, cur) ==
  IF list = <<>> THEN cur
  ELSE threatField(Tail(list), p,
         IF threatCovers(Head(list), p)
         THEN Min2(254, Max2(cur, threatCost(Head(list), p)))
         ELSE cur)

\* what the danger loop of tower t computes for a tile p that it writes
towerCost(t, p) ==
  LET dist == getRange(TowerPos(t), p)
      dmg == Max2(0, 1000 - 50 * (dist - 1))
  IN Min2(200, (dmg * TOWER_THREAT_WEIGHT) \div 100)
towerCovers(t, p) ==
  /\ wTowers[t].used > 0
  /\ getRange(TowerPos(t), p) <= TOWER_RANGE
  /\ getTerrainAt(p) # "wall"

RECURSIVE towerField(_, _, _)
towerField(list, p, cur) ==
  IF list = <<>> THEN cur
  ELSE towerField(Tail(list), p,
         IF towerCovers(Head(list), p)
         THEN Min2(254, Max2(cur, towerCost(Head(list), p)))
         ELSE cur)

edgeDist(p) == Min2(Min2(p.x, p.y), Min2(99 - p.x, 99 - p.y))
edgePenalty(p) ==
  IF getTerrainAt(p) # "wall" /\ edgeDist(p) < WALL_REPEL_DIST
  THEN (WALL_REPEL_DIST - edgeDist(p)) * 10
  ELSE 0
\* the arena-edge loop on tile p: combining its old value as max instead of as sum
edgeFieldMax(p, cur) ==
  IF getTerrainAt(p) # "wall" /\ edgeDist(p) < WALL_REPEL_DIST
  THEN Min2(254, Max2(cur, edgePenalty(p)))
  ELSE cur
\* the arena-edge loop on tile p
edgeField(p, cur) ==
  IF getTerrainAt(p) # "wall" /\ edgeDist(p) < WALL_REPEL_DIST
  THEN Min2(254, cur + edgePenalty(p))
  ELSE cur

RECURSIVE stackFieldUncapped(_, _, _)
\* the ally loop without its cap
stackFieldUncapped(list, p, cur) ==
  IF list = <<>> THEN cur
  ELSE stackFieldUncapped(Tail(list), p, IF wPos[Head(list)] = p THEN cur + 4 ELSE cur)

RECURSIVE stackField(_, _, _)
\* the ally loop on tile p: every creep of list that stands on it adds 4
stackField(list, p, cur) ==
  IF list = <<>> THEN cur
  ELSE stackField(Tail(list), p,
         IF wPos[Head(list)] = p THEN Min2(254, cur + 4) ELSE cur)

\* the cost matrix that buildInfluenceMap leaves, on the tiles followed
influenceAt(p) ==
  stackField(myCreeps, p, edgeField(p, towerField(enemyTowers, p, threatField(enemies, p, 0))))
buildInfluenceMap == [p \in FieldTiles |-> influenceAt(p)]

\* the test of getInfluenceMap made always true
fieldAlwaysStale == TRUE
\* the test of getInfluenceMap: no field yet, or the field has reached the refresh age
fieldStale ==
  influenceMatrix = NullMatrix \/ tick - lastInfluenceTick >= INFLUENCE_REFRESH_TICKS

\* getInfluenceMap(): rebuild the field when it is stale, return it
getInfluenceMap ==
  IF fieldStale
  THEN /\ influenceMatrix' = buildInfluenceMap
       /\ lastInfluenceTick' = tick
       /\ fieldBuilds' = fieldBuilds + 1
  ELSE UNCHANGED <<influenceMatrix, lastInfluenceTick, fieldBuilds>>

\* ------------------------------------------------------ 10b tower charging
towerCharged(t) ==
  wTowers[t].cap > 0 /\ wTowers[t].used * 100 >= wTowers[t].cap * TOWER_CHARGE_THRESHOLD

\* release pass: the towers whose binding is dropped (dead charger, vanished tower,
\* tower charged)
ReleasedUnlessCharged ==
  {t \in TowerIds :
     /\ towerChargeAssigned[t] # None
     /\ towerChargeAssigned[t] \notin Range(myCreeps) \/ ~towerExists(t)}
ReleasedUnlessVanished ==
  {t \in TowerIds :
     /\ towerChargeAssigned[t] # None
     /\ towerChargeAssigned[t] \notin Range(myCreeps) \/ towerCharged(t)}
ReleasedTowers ==
  {t \in TowerIds :
     /\ towerChargeAssigned[t] # None
     /\ \/ towerChargeAssigned[t] \notin Range(myCreeps)
        \/ ~towerExists(t)
        \/ towerCharged(t)}
ReleasedChargers == {towerChargeAssigned[t] : t \in ReleasedTowers}
\* the bindings the release pass reaches its third test with (charger alive, tower
\* there) and drops because the tower is charged
ChargedReleases ==
  {t \in TowerIds :
     /\ towerChargeAssigned[t] # None
     /\ towerChargeAssigned[t] \in Range(myCreeps)
     /\ towerExists(t)
     /\ towerCharged(t)}

\* the containers with energy, none found
noEnergySrc == <<>>
energySrc == SelectSeq(containers, LAMBDA c : wContainers[c] > 0)

RECURSIVE assignPass(_, _)
\* assign pass over the towers of list, from the tables st = [tca, c2t, cs]
assignPass(list, st) ==
  IF list = <<>> THEN st
  ELSE LET t == Head(list)
           candidates == SelectSeq(myCreeps,
                           LAMBDA c : /\ st.c2t[c] = None
                                      /\ hasActive(c, CARRY)
                                      /\ getRange(wPos[c], TowerPos(t)) <= TOWER_ASSIGN_RADIUS)
           chosen == findClosestByRange(TowerPos(t), candidates, wPos)
           skip == \/ st.tca[t] # None
                   \/ wTowers[t].cap = 0
                   \/ wTowers[t].used * 100 >= wTowers[t].cap * TOWER_CHARGE_THRESHOLD
                   \/ energySrc = <<>>
                   \/ candidates = <<>>
       IN assignPass(Tail(list),
            IF skip THEN st
            ELSE [tca |-> [st.tca EXCEPT ![t] = chosen],
                  c2t |-> [st.c2t EXCEPT ![chosen] = t],
                  cs |-> [st.cs EXCEPT ![chosen] = "WITHDRAW"]])

isCharger(c) == chargerToTower[c] # None

\* -------------------------------------------------------- 9 commander layer
squad == myVanguards \o myRangers
xOf == [id \in UnitIds |-> wPos[id].x]
yOf == [id \in UnitIds |-> wPos[id].y]
squadCentroid ==
  IF squad = <<>> THEN Pt(50, 50)
  ELSE Pt(RoundDiv(SumSeq(squad, xOf), Len(squad)), RoundDiv(SumSeq(squad, yOf), Len(squad)))

engageable ==
  SelectSeq(enemies, LAMBDA e :
     \/ \E i \in DOMAIN myVanguards : getRange(wPos[myVanguards[i]], enemyPos[e]) <= 6
     \/ \E i \in DOMAIN myRangers : getRange(wPos[myRangers[i]], enemyPos[e]) <= 6)
focusTarget ==
  IF engageable # <<>> THEN selectFocusTarget(engageable) ELSE selectFocusTarget(enemies)

\* a.hits / a.hitsMax > b.hits / b.hitsMax
healthier(a, b) == wHits[a] * HitsMax(b) > wHits[b] * HitsMax(a)
\* the comparator of designateTank: a sorts strictly before b
tankBefore(a, b) ==
  \/ healthier(a, b)
  \/ ~healthier(b, a) /\ Len(BodyOf(a)) > Len(BodyOf(b))

\* the health-floor test made always false
neverAboveFloor(c) == FALSE
aboveFloor(c) == wHits[c] * 100 > HitsMax(c) * TANK_FLOOR_RATIO

\* the vanguards designateTank chooses among: those not bound to a tower
TankCandidates == SelectSeq(myVanguards, LAMBDA c : ~isCharger(c))

KeepTankAlways(vanguards) == currentTank # None /\ currentTank \in Range(vanguards)
\* the incumbent is kept: still a candidate and above the health floor
KeepTank(vanguards) ==
  /\ currentTank # None
  /\ currentTank \in Range(vanguards)
  /\ aboveFloor(currentTank)

designateTank ==
  LET vanguards == TankCandidates
  IN IF vanguards = <<>> THEN None
     ELSE IF KeepTank(vanguards) THEN currentTank
     ELSE vanguards[CHOOSE i \in DOMAIN vanguards :
                      /\ \A j \in DOMAIN vanguards : ~tankBefore(vanguards[j], vanguards[i])
                      /\ \A k \in 1..(i - 1) :
                            \E j \in DOMAIN vanguards : tankBefore(vanguards[j], vanguards[k])]

\* movement targets: a flag object, a point, null (the value of a missing home flag),
\* and Absent for an id without an entry in creepTargets
FlagTarget(f) == [kind |-> "flag", id |-> f, x |-> FlagPos(f).x, y |-> FlagPos(f).y]
PointTarget(p) == [kind |-> "point", id |-> None, x |-> p.x, y |-> p.y]
NullTarget == [kind |-> "null", id |-> None, x |-> None, y |-> None]
Absent == [kind |-> "absent", id |-> None, x |-> None, y |-> None]
flagOrNull(f) == IF f = None THEN NullTarget ELSE FlagTarget(f)

uncaptured == neutralFlags \o enemyFlags
runnersFree == SelectSeq(myRunners, LAMBDA c : ~isCharger(c))
mainArmy == SelectSeq(myCreeps, LAMBDA c : creepRoles[c] # ROLE_RUNNER /\ ~isCharger(c))

\* reduce((best, f) => getRange(from, f) < getRange(from, best) ? f : best)
nearestFlag(from, flags) == findClosestByRange(from, flags, flagPos)

RECURSIVE patrolTargets(_, _, _)
\* all flags captured: runner number i (from 0) patrols owned flag i mod the count
patrolTargets(runners, i, targets) ==
  IF runners = <<>> THEN targets
  ELSE LET n == Len(myOwnedFlags)
           flag == IF n = 0 THEN myFlag ELSE myOwnedFlags[(i % Max2(1, n)) + 1]
       IN patrolTargets(Tail(runners), i + 1,
            IF flag = None THEN targets
            ELSE [targets EXCEPT ![Head(runners)] = FlagTarget(flag)])

RECURSIVE spreadTargets(_, _, _, _)
\* each runner takes the nearest flag of pool no earlier runner took, else the nearest
spreadTargets(runners, pool, assigned, targets) ==
  IF runners = <<>> THEN targets
  ELSE LET runner == Head(runners)
           sorted == SortDesc(pool, [f \in FlagIds |-> -getRange(wPos[runner], FlagPos(f))])
           free == SelectSeq(sorted, LAMBDA f : f \notin assigned)
           target == IF free # <<>> THEN Head(free) ELSE Head(sorted)
       IN spreadTargets(Tail(runners), pool, assigned \cup {target},
                        [targets EXCEPT ![runner] = FlagTarget(target)])

assignRunnerTargets(runners, targets) ==
  IF runners = <<>> THEN targets
  ELSE IF uncaptured = <<>> THEN patrolTargets(runners, 0, targets)
  ELSE LET undefended == SelectSeq(uncaptured,
                            LAMBDA f : findInRange(FlagPos(f), enemies, enemyPos, 8) = <<>>)
           pool == IF undefended # <<>> THEN undefended ELSE uncaptured
       IN spreadTargets(runners, pool, {}, targets)

\* the centroid of the largest enemy cluster; only read when enemies exist
findEnemyCentroid ==
  LET count(e) == Len(findInRange(enemyPos[e], enemies, enemyPos, 10))
      bestCenter == enemies[CHOOSE i \in DOMAIN enemies :
                              \A j \in DOMAIN enemies :
                                 \/ count(enemies[i]) > count(enemies[j])
                                 \/ count(enemies[i]) = count(enemies[j]) /\ i <= j]
      cluster == findInRange(enemyPos[bestCenter], enemies, enemyPos, 10)
  IN Pt(RoundDiv(SumSeq(cluster, [e \in EnemyIds |-> enemyPos[e].x]), Len(cluster)),
        RoundDiv(SumSeq(cluster, [e \in EnemyIds |-> enemyPos[e].y]), Len(cluster)))

flagRush == tick <= PHASE_EXPAND_END /\ neutralFlags # <<>>

farthestNeutral == 
  FlagTarget(neutralFlags[CHOOSE i \in DOMAIN neutralFlags :
      \A j \in DOMAIN neutralFlags :
         getRange(squadCentroid, FlagPos(neutralFlags[i]))
           >= getRange(squadCentroid, FlagPos(neutralFlags[j]))])
\* the flag of the flag rush: the neutral flag nearest to the squad centroid
rushObjective == FlagTarget(nearestFlag(squadCentroid, neutralFlags))

\* the one objective commandLayer hands to every unit of the main army
mainObjective ==
  IF flagRush THEN rushObjective
  ELSE IF enemies # <<>> THEN PointTarget(findEnemyCentroid)
  ELSE IF uncaptured # <<>> THEN FlagTarget(nearestFlag(squadCentroid, uncaptured))
  ELSE flagOrNull(myFlag)

armyTargets(targets) ==
  [id \in UnitIds |-> IF id \in Range(mainArmy) THEN mainObjective ELSE targets[id]]

\* the flag defense interceptor left out
noInterceptTargets(list, targets) == targets
RECURSIVE interceptTargets(_, _)
\* flag defense interceptor over the owned flags of list
interceptTargets(list, targets) ==
  IF list = <<>> THEN targets
  ELSE LET flag == Head(list)
           threatsNearFlag == findInRange(FlagPos(flag), enemies, enemyPos, 10)
           defendersNear == SelectSeq(findInRange(FlagPos(flag), myCreeps, wPos, 5),
                                      LAMBDA c : ~isCharger(c))
           interceptors == SelectSeq(mainArmy,
                              LAMBDA c : creepRoles[c] \in {ROLE_VANGUARD, ROLE_RANGER})
           closest == findClosestByRange(FlagPos(flag), interceptors, wPos)
       IN interceptTargets(Tail(list),
            IF threatsNearFlag = <<>> \/ defendersNear # <<>> \/ interceptors = <<>>
            THEN targets
            ELSE [targets EXCEPT ![closest] = FlagTarget(flag)])

stragglerTargets(targets) ==
  [id \in UnitIds |->
     IF /\ id \in Range(mainArmy)
        /\ getRange(wPos[id], squadCentroid) > 15
        /\ Len(findInRange(wPos[id], enemies, enemyPos, MOSQUITO_DETECT_RANGE)) >= 3
     THEN PointTarget(squadCentroid) ELSE targets[id]]

\* creepTargets after commandLayer: entries are only ever set, never deleted
commandTargets(targets) ==
  IF flagRush THEN armyTargets(assignRunnerTargets(runnersFree, targets))
  ELSE stragglerTargets(
         interceptTargets(myOwnedFlags,
           armyTargets(assignRunnerTargets(runnersFree, targets))))

\* --------------------------------------------------------- 7 retreat protocol
belowRetreat(c) == wHits[c] * 100 < HitsMax(c) * RETREAT_HP_RATIO

shouldRetreatNoMedicCheck(c) == belowRetreat(c) /\ creepRoles[c] # ROLE_VANGUARD
shouldRetreat(c) ==
  IF ~belowRetreat(c) THEN FALSE
  ELSE IF creepRoles[c] = ROLE_VANGUARD THEN FALSE
  ELSE myMedics # <<>>

\* ------------------------------------------------------------ charger FSM
storeCapacity(c) == CarryCapacity * countActive(c, CARRY)
storeFree(c) == Max2(0, storeCapacity(c) - wEnergy[c])

\* the FSM state after the two transitions of behaviorCharger, from the table's state s
chargerTurn(c, s) ==
  LET s0 == IF s = "none" THEN "WITHDRAW" ELSE s
      s1 == IF s0 = "WITHDRAW" /\ storeFree(c) <= 0 THEN "DELIVER" ELSE s0
  IN IF s1 = "DELIVER" /\ wEnergy[c] <= 0 THEN "WITHDRAW" ELSE s1
chargerAlwaysDeliver(c, s) == "DELIVER"
\* and the state behaviorCharger writes to the table for creep c, whose tower exists
chargerNextState(c, s) ==
  IF chargerTurn(c, s) = "WITHDRAW" /\ energySrc = <<>> /\ wEnergy[c] > 0 THEN "DELIVER"
  ELSE chargerTurn(c, s)

\* ------------------------------------------------------------ the passes
Initialize ==
  /\ pc = "init"
  /\ creepRoles' = IF initialized THEN creepRoles ELSE assignRoles
  /\ IF initialized THEN UNCHANGED field
     ELSE /\ influenceMatrix' = buildInfluenceMap
          /\ lastInfluenceTick' = tick
          /\ fieldBuilds' = fieldBuilds + 1
  /\ initialized' = TRUE
  /\ passes' = IF initialized THEN passes ELSE Append(passes, "init")
  /\ pc' = passAfter("init")
  /\ UNCHANGED <<world, tick, myCreeps, towerChargeAssigned, chargerToTower, chargerState,
                 creepTargets, globalFocusTarget, currentTank, lists, loopIdx, retreating,
                 movedBy, combatAct, calls, issued, deathEvents, lostChargers, released, freed, prevTank,
                 armyObjective, objectiveFlags>>

reevalDue == tick > 1 /\ tick % ROLE_REEVAL_TICKS = 0

Reevaluate ==
  /\ pc = "reeval"
  /\ IF reevalDue
     THEN /\ creepRoles' = reevaluateRoles
          /\ towerChargeAssigned' = towersWithout(StaleRoleIds)
          /\ chargerToTower' = chargersWithout(StaleRoleIds)
          /\ chargerState' = statesWithout(StaleRoleIds)
     ELSE UNCHANGED tables
  /\ passes' = IF reevalDue THEN Append(passes, "reeval") ELSE passes
  /\ pc' = passAfter("reeval")
  /\ UNCHANGED <<world, tick, initialized, myCreeps, creepTargets, globalFocusTarget,
                 currentTank, lists, loopIdx, retreating, movedBy, combatAct, calls, issued, deathEvents, lostChargers, released, freed, field,
                 prevTank, armyObjective, objectiveFlags>>

\* myCreeps.filter(c => creepRoles.get(c.id) === role)
withRole(role) == SelectSeq(myCreeps, LAMBDA c : creepRoles[c] = role)

precomputeRoleLists ==
  /\ pc = "precompute"
  /\ myVanguards' = withRole(ROLE_VANGUARD)
  /\ myRangers' = withRole(ROLE_RANGER)
  /\ myMedics' = withRole(ROLE_MEDIC)
  /\ myRunners' = withRole(ROLE_RUNNER)
  /\ passes' = Append(passes, "lists")
  /\ pc' = passAfter("precompute")
  /\ UNCHANGED <<world, tick, initialized, myCreeps, tables, creepTargets,
                 globalFocusTarget, currentTank, loopIdx, retreating, movedBy, combatAct, calls, issued,
                 deathEvents, lostChargers, released, freed, field, prevTank, armyObjective, objectiveFlags>>

\* the getInfluenceMap() call of loop()
refreshInfluence ==
  /\ pc = "influence"
  /\ getInfluenceMap
  /\ passes' = Append(passes, "influence")
  /\ pc' = passAfter("influence")
  /\ UNCHANGED <<world, tick, initialized, myCreeps, tables, creepTargets,
                 globalFocusTarget, currentTank, lists, loopIdx, retreating, movedBy, combatAct, calls, issued,
                 deathEvents, lostChargers, released, freed, prevTank, armyObjective,
                 objectiveFlags>>

\* assignTowerChargers, first loop
ReleaseChargers ==
  /\ pc = "release"
  /\ towerChargeAssigned' =
       [t \in TowerIds |-> IF t \in ReleasedTowers THEN None ELSE towerChargeAssigned[t]]
  /\ chargerToTower' =
       [c \in UnitIds |-> IF c \in ReleasedChargers THEN None ELSE chargerToTower[c]]
  /\ chargerState' =
       [c \in UnitIds |-> IF c \in ReleasedChargers THEN "none" ELSE chargerState[c]]
  /\ released' = ReleasedTowers
  /\ freed' = {[id |-> towerChargeAssigned[t], tower |-> t] : t \in ChargedReleases}
  /\ pc' = passAfter("release")
  /\ UNCHANGED passes
  /\ UNCHANGED <<world, tick, initialized, myCreeps, creepRoles, creepTargets,
                 globalFocusTarget, currentTank, lists, loopIdx, retreating, movedBy, combatAct, calls, issued,
                 deathEvents, lostChargers, field, prevTank, armyObjective,
                 objectiveFlags>>

\* assignTowerChargers, second loop
AssignChargers ==
  /\ pc = "assign"
  /\ LET st == assignPass(myTowers, [tca |-> towerChargeAssigned, c2t |-> chargerToTower,
                                     cs |-> chargerState])
     IN /\ towerChargeAssigned' = st.tca
        /\ chargerToTower' = st.c2t
        /\ chargerState' = st.cs
  /\ passes' = Append(passes, "logistics")
  /\ pc' = passAfter("assign")
  /\ UNCHANGED <<world, tick, initialized, myCreeps, creepRoles, creepTargets,
                 globalFocusTarget, currentTank, lists, loopIdx, retreating, movedBy, combatAct, calls, issued,
                 deathEvents, lostChargers, released, freed, field, prevTank, armyObjective, objectiveFlags>>

commandLayer ==
  /\ pc = "command"
  /\ globalFocusTarget' = focusTarget
  /\ currentTank' = designateTank
  /\ creepTargets' = commandTargets(creepTargets)
  /\ prevTank' = currentTank
  /\ armyObjective' = mainObjective
  /\ objectiveFlags' = wFlagOwner
  /\ loopIdx' = 1
  /\ passes' = Append(passes, "command")
  /\ pc' = passAfter("command")
  /\ UNCHANGED <<world, tick, initialized, myCreeps, tables, lists, retreating, movedBy, combatAct, calls, issued,
                 deathEvents, lostChargers, released, freed, field>>

\* ------------------------------------------------------ 11 combat resolver
\* list.reduce((b, c) => c.hits < b.hits ? c : b): the first element of the least hits
lowestHits(list, hits) ==
  list[CHOOSE i \in DOMAIN list :
         \A j \in DOMAIN list :
            hits[list[i]] < hits[list[j]] \/ (hits[list[i]] = hits[list[j]] /\ i <= j)]
\* list.reduce((b, c) => c.hits/c.hitsMax < b.hits/b.hitsMax ? c : b) over owned creeps
lowestRatio(list) ==
  list[CHOOSE i \in DOMAIN list :
         \A j \in DOMAIN list :
            \/ wHits[list[i]] * HitsMax(list[j]) < wHits[list[j]] * HitsMax(list[i])
            \/ /\ wHits[list[i]] * HitsMax(list[j]) = wHits[list[j]] * HitsMax(list[i])
               /\ i <= j]
enemyHits == [e \in EnemyIds |-> wEnemies[e].hits]

\* the target of a single-target ranged attack
rangedTarget(inR3) ==
  IF globalFocusTarget # None /\ globalFocusTarget \in Range(inR3) THEN globalFocusTarget
  ELSE IF Len(inR3) = 1 THEN inR3[1]
  ELSE lowestHits(inR3, enemyHits)
\* bestRangedAction without the area attack
focusedRangedAction(c) ==
  LET inR3 == findInRange(wPos[c], enemies, enemyPos, 3)
  IN IF inR3 = <<>> \/ countActive(c, RANGED_ATTACK) = 0 THEN NoAction
     ELSE Act("rangedAttack", rangedTarget(inR3))
bestRangedAction(c) ==
  LET inR1 == findInRange(wPos[c], enemies, enemyPos, 1)
      inR2 == findInRange(wPos[c], enemies, enemyPos, 2)
      inR3 == findInRange(wPos[c], enemies, enemyPos, 3)
      N == countActive(c, RANGED_ATTACK)
      massTotal == Len(inR1) * 10 * N + (Len(inR2) - Len(inR1)) * 4 * N
                     + (Len(inR3) - Len(inR2)) * 1 * N
      focusedTotal == 10 * N
  IN IF inR3 = <<>> THEN NoAction
     ELSE IF Len(inR1) >= 2 THEN Act("rangedMassAttack", None)
     ELSE IF N = 0 THEN NoAction
     ELSE IF massTotal * 2 > focusedTotal * 3 THEN Act("rangedMassAttack", None)
     ELSE Act("rangedAttack", rangedTarget(inR3))

\* the Medic branch of doCombatAction, for a Medic with active HEAL parts
medicAction(c) ==
  LET damaged == SelectSeq(myCreeps, LAMBDA o : wHits[o] < HitsMax(o) /\ o # c)
      adjDmg == findInRange(wPos[c], damaged, wPos, 1)
      nearDmg == findInRange(wPos[c], damaged, wPos, 3)
      tankLow == /\ currentTank # None /\ currentTank \in Range(damaged)
                 /\ wHits[currentTank] * 100 < 70 * HitsMax(currentTank)
  IN IF tankLow /\ getRange(wPos[c], wPos[currentTank]) <= 1 THEN Act("heal", currentTank)
     ELSE IF tankLow /\ getRange(wPos[c], wPos[currentTank]) <= 3
          THEN Act("rangedHeal", currentTank)
     ELSE IF adjDmg # <<>> THEN Act("heal", lowestRatio(adjDmg))
     ELSE IF nearDmg # <<>> THEN Act("rangedHeal", lowestRatio(nearDmg))
     ELSE IF wHits[c] < HitsMax(c) THEN Act("heal", c)
     ELSE NoAction

\* the last branch of doCombatAction: melee, else ranged, else opportunistic heal
fighterAction(c) ==
  LET adj == findInRange(wPos[c], enemies, enemyPos, 1)
      adjDmg == findInRange(wPos[c], SelectSeq(myCreeps, LAMBDA o : wHits[o] < HitsMax(o)),
                            wPos, 1)
  IN IF hasActive(c, ATTACK) /\ adj # <<>>
     THEN Act("attack", IF globalFocusTarget # None /\ globalFocusTarget \in Range(adj)
                        THEN globalFocusTarget ELSE lowestHits(adj, enemyHits))
     ELSE IF hasActive(c, RANGED_ATTACK) /\ bestRangedAction(c) # NoAction
     THEN bestRangedAction(c)
     ELSE IF hasActive(c, HEAL) /\ adjDmg # <<>> THEN Act("heal", lowestHits(adjDmg, wHits))
     ELSE IF hasActive(c, HEAL) /\ wHits[c] < HitsMax(c) THEN Act("heal", c)
     ELSE NoAction

doCombatAction(c) ==
  LET adj == findInRange(wPos[c], enemies, enemyPos, 1)
  IN IF shouldRetreat(c)
     THEN IF hasActive(c, HEAL) THEN Act("heal", c)
          ELSE IF hasActive(c, RANGED_ATTACK) THEN bestRangedAction(c)
          ELSE NoAction
     ELSE IF creepRoles[c] = ROLE_RUNNER
     THEN IF hasActive(c, HEAL) /\ wHits[c] < HitsMax(c) THEN Act("heal", c)
          ELSE IF hasActive(c, RANGED_ATTACK) THEN bestRangedAction(c)
          ELSE IF hasActive(c, ATTACK) /\ adj # <<>> THEN Act("attack", adj[1])
          ELSE NoAction
     ELSE IF creepRoles[c] = ROLE_MEDIC
     THEN IF hasActive(c, HEAL) THEN medicAction(c) ELSE NoAction
     ELSE fighterAction(c)

\* ------------------------------------------------------ 12 movement resolver
\* an engine call made for a creep: the method, what it aims at (an id and a tile), and
\* the path options it hands to moveTo: "field" for pathOpts(), "plain" for
\* aggressivePathOpts(), "none" for a call without options
Cmd(v, w, i, p, o) == [verb |-> v, what |-> w, id |-> i, at |-> p, opts |-> o]
Nowhere == Pt(0 - 1, 0 - 1)
\* what a resolver did for a creep: the rule that won, the calls it made, and whether
\* it asked getInfluenceMap() for the field
Moved(r, cmds, f) == [rule |-> r, made |-> cmds, field |-> f]

Sign(a) == IF a > 0 THEN 1 ELSE IF a < 0 THEN 0 - 1 ELSE 0
inArena(p) == p.x >= 0 /\ p.x <= 99 /\ p.y >= 0 /\ p.y <= 99

\* moveToward(creep, target): one step, moveTo when the next tile is a wall
moveToward(c, w, i, target) ==
  LET dx == Sign(target.x - wPos[c].x)
      dy == Sign(target.y - wPos[c].y)
      next == Pt(wPos[c].x + dx, wPos[c].y + dy)
  IN IF dx = 0 /\ dy = 0 THEN <<>>
     ELSE IF inArena(next) /\ getTerrainAt(next) # "wall"
     THEN <<Cmd("move", w, i, next, "none")>>
     ELSE <<Cmd("moveTo", w, i, target, "none")>>
\* moveAway(creep, threat) needs the pathfinder when the tile behind is a wall
awayTile(c, e) ==
  LET dx == Sign(wPos[c].x - enemyPos[e].x)
      dy == Sign(wPos[c].y - enemyPos[e].y)
  IN Pt(wPos[c].x + (IF dx = 0 /\ dy = 0 THEN 1 ELSE dx), wPos[c].y + dy)
awayBlocked(c, e) == ~(inArena(awayTile(c, e)) /\ getTerrainAt(awayTile(c, e)) # "wall")
moveAway(c, e) ==
  IF ~awayBlocked(c, e) THEN <<Cmd("move", "away", e, awayTile(c, e), "none")>>
  ELSE IF c \notin wCornered THEN <<Cmd("move", "flee", e, Nowhere, "field")>>
  ELSE <<>>

\* the pull-back test without the retreat test
pullBackWhenHurt(c) ==
  /\ creepRoles[c] \notin {ROLE_MEDIC, ROLE_VANGUARD}
  /\ wHits[c] * 100 <= HitsMax(c) * PULLBACK_HP_RATIO
  /\ ~\E i \in DOMAIN myMedics : getRange(wPos[c], wPos[myMedics[i]]) <= 1
shouldPullBack(c) ==
  IF shouldRetreat(c) THEN FALSE
  ELSE IF creepRoles[c] = ROLE_MEDIC THEN FALSE
  ELSE IF creepRoles[c] = ROLE_VANGUARD THEN FALSE
  ELSE IF wHits[c] * 100 > HitsMax(c) * PULLBACK_HP_RATIO THEN FALSE
  ELSE ~\E i \in DOMAIN myMedics : getRange(wPos[c], wPos[myMedics[i]]) <= 1

isMosquitoSituation(c) ==
  LET localAllies == Len(findInRange(wPos[c], myCreeps, wPos, MOSQUITO_DETECT_RANGE))
      localEnemies == Len(findInRange(wPos[c], enemies, enemyPos, MOSQUITO_DETECT_RANGE))
  IN IF localEnemies < 3 THEN FALSE
     ELSE IF localAllies * 2 >= Len(myCreeps) THEN FALSE
     ELSE IF Len(myCreeps) * 2 >= Len(enemies) * 3 THEN FALSE
     ELSE IF Len(findInRange(wPos[c], myVanguards, wPos, 4)) >= 2 THEN FALSE
     ELSE localEnemies * 2 > localAllies * 3

\* Math.round(a / sqrt(a * a + b * b)) of two integers: 1 or -1 when the component is
\* at least half of the length (3 a^2 = b^2 has no integer solution but 0, 0)
unitStep(a, b) ==
  IF a > 0 /\ 3 * a * a >= b * b THEN 1
  ELSE IF a < 0 /\ 3 * a * a > b * b THEN 0 - 1
  ELSE 0
\* getFormationPoint(tank): one tile behind the creep v, away from the enemies within 6;
\* Nowhere for null. The differences are kept multiplied by the number of enemies.
getFormationPoint(v) ==
  LET near == findInRange(wPos[v], enemies, enemyPos, 6)
      ex == [e \in EnemyIds |-> enemyPos[e].x]
      ey == [e \in EnemyIds |-> enemyPos[e].y]
      dx == Len(near) * wPos[v].x - SumSeq(near, ex)
      dy == Len(near) * wPos[v].y - SumSeq(near, ey)
  IN IF near = <<>> THEN Nowhere
     ELSE Pt(Max2(1, Min2(98, wPos[v].x + unitStep(dx, dy))),
             Max2(1, Min2(98, wPos[v].y + unitStep(dy, dx))))

partIds == [i \in DOMAIN wBodyParts |-> i]
onBodyPart(c) == \E i \in DOMAIN wBodyParts : wBodyParts[i] = wPos[c]
\* findClosestByRange(creep, bodyParts) when it is within r, None otherwise
bodyPartWithin(c, r) ==
  LET bp == findClosestByRange(wPos[c], partIds, wBodyParts)
  IN IF bp # None /\ getRange(wPos[c], wBodyParts[bp]) <= r THEN bp ELSE None
hasObjective(c) == creepTargets[c].kind \in {"flag", "point"}
toObjective(c, o) ==
  <<Cmd("moveTo", "objective", creepTargets[c].id, Pt(creepTargets[c].x, creepTargets[c].y), o)>>
toCreep(w, o, opts) == <<Cmd("moveTo", w, o, wPos[o], opts)>>
toEnemy(e, opts) == <<Cmd("moveTo", "enemy", e, enemyPos[e], opts)>>

\* P0: the emergency retreat of a creep for which shouldRetreat holds
retreatMove(c) ==
  LET nearby == findInRange(wPos[c], enemies, enemyPos, 8)
      nearest == findClosestByRange(wPos[c], myMedics, wPos)
  IN IF nearby # <<>> /\ c \notin wCornered
     THEN Moved("P0", <<Cmd("move", "flee", None, Nowhere, "field")>>, TRUE)
     ELSE IF nearest # None THEN Moved("P0", toCreep("medic", nearest, "field"), TRUE)
     ELSE IF myFlag # None
     THEN Moved("P0", <<Cmd("moveTo", "homeFlag", myFlag, FlagPos(myFlag), "field")>>, TRUE)
     ELSE Moved("P0", <<>>, nearby # <<>>)

\* the branch of a Runner
runnerMove(c) ==
  LET nearEn == findInRange(wPos[c], enemies, enemyPos, 6)
      bp == bodyPartWithin(c, 8)
  IN IF onBodyPart(c) THEN Moved("runner", <<>>, FALSE)
     ELSE IF hasObjective(c)
     THEN Moved("runner", toObjective(c, IF nearEn # <<>> THEN "field" ELSE "plain"),
                nearEn # <<>>)
     ELSE IF bp # None
     THEN Moved("runner", <<Cmd("moveTo", "bodyPart", bp, wBodyParts[bp], "none")>>, FALSE)
     ELSE Moved("runner", <<>>, FALSE)

\* P1.5: where a creep in a mosquito situation walks to, Nowhere for no safe point
safePoint(c) ==
  LET farAllies == SelectSeq(myCreeps, LAMBDA o :
                      o # c /\ getRange(wPos[c], wPos[o]) > MOSQUITO_DETECT_RANGE)
      activeTower == SelectSeq(myTowers, LAMBDA t : wTowers[t].used > 0)
  IN IF farAllies # <<>>
     THEN Pt(RoundDiv(SumSeq(farAllies, xOf), Len(farAllies)),
             RoundDiv(SumSeq(farAllies, yOf), Len(farAllies)))
     ELSE IF activeTower # <<>> THEN TowerPos(Head(activeTower))
     ELSE IF myFlag # None THEN FlagPos(myFlag)
     ELSE Nowhere

\* P4 and P5 of a creep that is not a Medic: the objective, else a body part within 3
advance(c) ==
  LET bp == bodyPartWithin(c, 3)
  IN IF hasObjective(c) THEN Moved("P4", toObjective(c, "plain"), FALSE)
     ELSE IF bp # None
     THEN Moved("P5", <<Cmd("moveTo", "bodyPart", bp, wBodyParts[bp], "none")>>, FALSE)
     ELSE Moved("idle", <<>>, FALSE)

\* the focus target when it is in the list, else the closest enemy of the list
focusAmong(c, list) ==
  IF globalFocusTarget # None /\ globalFocusTarget \in Range(list) THEN globalFocusTarget
  ELSE findClosestByRange(wPos[c], list, enemyPos)

\* P3 of a Vanguard: chase in contact, charge within 8, else the objective
vanguardMove(c) ==
  LET inR1 == findInRange(wPos[c], enemies, enemyPos, 1)
      nearEn == findInRange(wPos[c], enemies, enemyPos, 8)
      target == focusAmong(c, nearEn)
  IN IF inR1 # <<>>
     THEN Moved("P3", moveToward(c, "enemy", focusAmong(c, inR1),
                                 enemyPos[focusAmong(c, inR1)]), FALSE)
     ELSE IF nearEn # <<>>
     THEN IF getRange(wPos[c], enemyPos[target]) <= 2
          THEN Moved("P3", moveToward(c, "enemy", target, enemyPos[target]), FALSE)
          ELSE Moved("P3", toEnemy(target, "plain"), FALSE)
     ELSE advance(c)

\* P3 of a Ranger: kite at range 1, hold at 2 and 3, approach behind the screen within 6
rangerMove(c) ==
  LET inR1 == findInRange(wPos[c], enemies, enemyPos, 1)
      inR3 == findInRange(wPos[c], enemies, enemyPos, 3)
      inR6 == findInRange(wPos[c], enemies, enemyPos, 6)
      nearestVan == findClosestByRange(wPos[c], myVanguards, wPos)
      t == focusAmong(c, inR6)
  IN IF inR1 # <<>>
     THEN Moved("P3", moveAway(c, findClosestByRange(wPos[c], inR1, enemyPos)),
                awayBlocked(c, findClosestByRange(wPos[c], inR1, enemyPos)))
     ELSE IF inR3 # <<>> THEN Moved("P3", <<>>, FALSE)
     ELSE IF inR6 # <<>>
     THEN IF nearestVan = None THEN Moved("P3", toEnemy(t, "plain"), FALSE)
          ELSE IF getRange(wPos[c], enemyPos[t]) > getRange(wPos[nearestVan], enemyPos[t])
          THEN Moved("P3", toEnemy(t, "plain"), FALSE)
          ELSE IF getRange(wPos[c], wPos[nearestVan]) <= 2
          THEN Moved("P3", moveToward(c, "vanguard", nearestVan, wPos[nearestVan]), FALSE)
          ELSE Moved("P3", toCreep("vanguard", nearestVan, "plain"), FALSE)
     ELSE advance(c)

neverExposed(c) == FALSE
\* the leash of a Medic: no Vanguard is strictly closer than it to its nearest enemy
exposed(c) ==
  /\ enemies # <<>>
  /\ myVanguards # <<>>
  /\ LET nearestEn == findClosestByRange(wPos[c], enemies, enemyPos)
     IN ~\E i \in DOMAIN myVanguards :
           getRange(wPos[myVanguards[i]], enemyPos[nearestEn]) < getRange(wPos[c], enemyPos[nearestEn])
\* creep.moveTo(fpt || follow, aggressivePathOpts())
toFormation(w, follow) ==
  IF getFormationPoint(follow) = Nowhere THEN toCreep(w, follow, "plain")
  ELSE <<Cmd("moveTo", "formation", follow, getFormationPoint(follow), "plain")>>
\* what the leash leaves of a step: hold next to the followed creep, else one tile to it
leashed(c, w, follow) ==
  IF getRange(wPos[c], wPos[follow]) > 1 THEN moveToward(c, w, follow, wPos[follow]) ELSE <<>>

\* P4 of a Medic that fell through its P3: it follows, and has no objective of its own
medicAdvance(c) ==
  LET follow == IF myVanguards # <<>> THEN findClosestByRange(wPos[c], myVanguards, wPos)
                ELSE findClosestByRange(wPos[c], myRangers, wPos)
      w == IF myVanguards # <<>> THEN "vanguard" ELSE "ranger"
  IN IF follow = None THEN advance(c)
     ELSE IF exposed(c) THEN Moved("leash", leashed(c, w, follow), FALSE)
     ELSE Moved("P4", toFormation(w, follow), FALSE)

\* P3 of a Medic
medicMove(c) ==
  LET nearEn == findInRange(wPos[c], enemies, enemyPos, 2)
      meleeThreats == SelectSeq(nearEn, LAMBDA e :
         /\ enemyCountActive(e, ATTACK) > 0
         /\ ~\E i \in DOMAIN myVanguards :
               getRange(wPos[myVanguards[i]], enemyPos[e]) < getRange(wPos[c], enemyPos[e]))
      threat == findClosestByRange(wPos[c], meleeThreats, enemyPos)
      allies == SelectSeq(myCreeps, LAMBDA o : o # c)
      critical == SelectSeq(allies, LAMBDA o : wHits[o] * 100 < HitsMax(o) * 50)
      hurt == SelectSeq(allies, LAMBDA o : wHits[o] * 100 < HitsMax(o) * 90)
      dmgInR1 == SelectSeq(hurt, LAMBDA o : getRange(wPos[c], wPos[o]) <= 1)
      dmgInR3 == SelectSeq(hurt, LAMBDA o :
                    getRange(wPos[c], wPos[o]) <= 3 /\ getRange(wPos[c], wPos[o]) > 1)
      followTarget == IF currentTank # None /\ currentTank \in Range(myVanguards)
                      THEN currentTank
                      ELSE findClosestByRange(wPos[c], myVanguards, wPos)
      nearest == findClosestByRange(wPos[c], myRangers, wPos)
  IN IF nearEn # <<>> /\ myVanguards # <<>> /\ meleeThreats # <<>>
     THEN Moved("protect", moveAway(c, threat), awayBlocked(c, threat))
     ELSE IF critical # <<>>
     THEN IF getRange(wPos[c], wPos[lowestRatio(critical)]) > 1
          THEN Moved("M0", toCreep("ally", lowestRatio(critical), "plain"), FALSE)
          ELSE Moved("M0", <<>>, FALSE)
     ELSE IF dmgInR1 # <<>> THEN Moved("M1", <<>>, FALSE)
     ELSE IF dmgInR3 # <<>>
     THEN Moved("M1b", moveToward(c, "ally", lowestRatio(dmgInR3),
                                  wPos[lowestRatio(dmgInR3)]), FALSE)
     ELSE IF hurt # <<>> THEN Moved("M2", toCreep("ally", lowestRatio(hurt), "plain"), FALSE)
     ELSE IF followTarget # None
     THEN IF exposed(c) THEN Moved("leash", leashed(c, "vanguard", followTarget), FALSE)
          ELSE IF getRange(wPos[c], wPos[followTarget]) <= 1
          THEN Moved("M3", moveToward(c, "vanguard", followTarget, wPos[followTarget]), FALSE)
          ELSE Moved("M3", toFormation("vanguard", followTarget), FALSE)
     ELSE IF nearest # None /\ getRange(wPos[c], wPos[nearest]) > 2
     THEN Moved("M3", toCreep("ranger", nearest, "plain"), FALSE)
     ELSE medicAdvance(c)

\* doMoveAction(creep): the first rule of the priority stack that matches
doMoveAction(c) ==
  LET nearest == findClosestByRange(wPos[c], myMedics, wPos)
      pulls == shouldPullBack(c) /\ nearest # None /\ getRange(wPos[c], wPos[nearest]) > 1
  IN IF c \in wFatigue THEN Moved("tired", <<>>, FALSE)
     ELSE IF shouldRetreat(c) THEN retreatMove(c)
     ELSE IF creepRoles[c] = ROLE_RUNNER THEN runnerMove(c)
     ELSE IF pulls THEN Moved("P0.5", toCreep("medic", nearest, "field"), TRUE)
     ELSE IF onBodyPart(c) THEN Moved("P1", <<>>, FALSE)
     ELSE IF creepRoles[c] # ROLE_MEDIC /\ isMosquitoSituation(c) /\ safePoint(c) # Nowhere
     THEN Moved("P1.5", <<Cmd("moveTo", "safePoint", None, safePoint(c), "field")>>, TRUE)
     ELSE IF creepRoles[c] = ROLE_VANGUARD THEN vanguardMove(c)
     ELSE IF creepRoles[c] = ROLE_RANGER THEN rangerMove(c)
     ELSE IF creepRoles[c] = ROLE_MEDIC THEN medicMove(c)
     ELSE advance(c)


\* ------------------------------------------------------ 10c charger behaviour
containerPos == [k \in ContainerIds |-> ContainerPos(k)]
\* the calls behaviorCharger makes for creep c bound to the living tower t, from the FSM
\* state s that the table holds for it
chargerCalls(c, t, s) ==
  LET state == chargerTurn(c, s)
      src == findClosestByRange(TowerPos(t), energySrc, containerPos)
      atTower == getRange(wPos[c], TowerPos(t)) <= 1
      toTower == <<Cmd("moveTo", "tower", t, TowerPos(t), "none")>>
      give == <<Cmd("transfer", "tower", t, TowerPos(t), "none")>>
      part(r) == IF bodyPartWithin(c, r) = None THEN <<>>
                 ELSE <<Cmd("moveTo", "bodyPart", bodyPartWithin(c, r),
                            wBodyParts[bodyPartWithin(c, r)], "none")>>
  IN IF state = "WITHDRAW"
     THEN IF src = None
          THEN IF wEnergy[c] > 0 THEN (IF atTower THEN give ELSE toTower)
               ELSE IF part(6) # <<>> THEN part(6)
               ELSE IF getRange(wPos[c], TowerPos(t)) > 2 THEN toTower
               ELSE <<>>
          ELSE IF getRange(wPos[c], ContainerPos(src)) <= 1
          THEN <<Cmd("withdraw", "container", src, ContainerPos(src), "none")>>
          ELSE <<Cmd("moveTo", "container", src, ContainerPos(src), "none")>>
     ELSE IF atTower THEN give \o part(4)
     ELSE toTower

\* ------------------------------------------------------ 13 tick executor
\* the engine calls of a creep as the log keeps them: the resolver that made the call,
\* the rule it made it under, and the call
Issued(b, r, cmds) ==
  [i \in DOMAIN cmds |->
     [by |-> b, rule |-> r, verb |-> cmds[i].verb, what |-> cmds[i].what, id |-> cmds[i].id,
      at |-> cmds[i].at, opts |-> cmds[i].opts]]
\* the calls doCombatAction makes for creep c
combatThenChase(c) ==
  <<Cmd(doCombatAction(c).kind, "target", doCombatAction(c).target, Nowhere, "none"),
    Cmd("moveTo", "target", doCombatAction(c).target, Nowhere, "none")>>
combatCalls(c) ==
  IF doCombatAction(c) = NoAction THEN <<>>
  ELSE <<Cmd(doCombatAction(c).kind, "target", doCombatAction(c).target, Nowhere, "none")>>

\* executeTick(creep) from the charger tables st = [c2t, cs]: the tables it leaves
boundIn(st, c) == st.c2t[c] # None
unitTables(c, st) ==
  IF ~boundIn(st, c) THEN st
  ELSE IF ~towerExists(st.c2t[c])
  THEN [c2t |-> [st.c2t EXCEPT ![c] = None], cs |-> [st.cs EXCEPT ![c] = "none"]]
  ELSE [c2t |-> st.c2t, cs |-> [st.cs EXCEPT ![c] = chargerNextState(c, st.cs[c])]]
\* a creep that holds its move once a call was made for another creep
unitCallsAfterOthers(c, st) ==
  Issued("combat", "combat", combatCalls(c)) \o
    (IF \E d \in UnitIds : d # c /\ st.issued[d] # <<>> THEN <<>>
     ELSE Issued("move", doMoveAction(c).rule, doMoveAction(c).made))
\* and the calls it makes, in order
unitCalls(c, st) ==
  Issued("combat", "combat", combatCalls(c)) \o
    (IF ~boundIn(st, c) THEN Issued("move", doMoveAction(c).rule, doMoveAction(c).made)
     ELSE IF ~towerExists(st.c2t[c]) THEN <<>>
     ELSE Issued("charger", "charger", chargerCalls(c, st.c2t[c], st.cs[c])))

\* the resolvers that executeTick calls for creep c, in order
resolversOf(c) == <<"combat", IF isCharger(c) THEN "charger" ELSE "move">>

\* doMoveAction asks pathOpts() for the field under some of its rules
readsField(c) == ~isCharger(c) /\ doMoveAction(c).field

RECURSIVE loopOver(_, _)
\* the per-unit loop of loop() over the creeps of order, from the tables and the log of
\* calls st = [c2t, cs, issued]
loopOver(order, st) ==
  IF order = <<>> THEN st
  ELSE LET c == Head(order)
       IN loopOver(Tail(order),
            IF c \in wSpawning THEN st
            ELSE [c2t |-> unitTables(c, st).c2t, cs |-> unitTables(c, st).cs,
                  issued |-> [st.issued EXCEPT ![c] = unitCalls(c, st)]])

chargerTables == [c2t |-> chargerToTower, cs |-> chargerState, issued |-> issued]
\* one iteration of the per-unit loop of loop(): executeTick of myCreeps[loopIdx]
executeTick ==
  /\ pc = "units"
  /\ loopIdx <= Len(myCreeps)
  /\ LET c == myCreeps[loopIdx]
     IN IF c \in wSpawning
        THEN UNCHANGED <<chargerToTower, chargerState, retreating, movedBy, combatAct,
                         calls, issued, passes, field>>
        ELSE /\ retreating' = IF shouldRetreat(c) THEN retreating \cup {c} ELSE retreating
             /\ combatAct' = [combatAct EXCEPT ![c] = doCombatAction(c)]
             /\ calls' = [calls EXCEPT ![c] = resolversOf(c)]
             /\ passes' = Append(passes, "unit")
             /\ IF readsField(c) THEN getInfluenceMap ELSE UNCHANGED field
             /\ movedBy' = [movedBy EXCEPT ![c] = IF isCharger(c) THEN "charger" ELSE "move"]
             /\ issued' = [issued EXCEPT ![c] = unitCalls(c, chargerTables)]
             /\ chargerToTower' = unitTables(c, chargerTables).c2t
             /\ chargerState' = unitTables(c, chargerTables).cs
  /\ loopIdx' = loopIdx + 1
  /\ UNCHANGED <<world, tick, initialized, myCreeps, creepRoles, towerChargeAssigned,
                 creepTargets, globalFocusTarget, currentTank, lists, pc, deathEvents, lostChargers, released, freed,
                 prevTank, armyObjective, objectiveFlags>>

EndLoop ==
  /\ pc = "units"
  /\ loopIdx > Len(myCreeps)
  /\ pc' = passAfter("units")
  /\ UNCHANGED passes
  /\ UNCHANGED <<world, tick, initialized, myCreeps, tables, creepTargets,
                 globalFocusTarget, currentTank, lists, loopIdx, retreating, movedBy, combatAct, calls, issued,
                 deathEvents, lostChargers, released, freed, field, prevTank, armyObjective, objectiveFlags>>

\* ------------------------------------------------------------ the engine
\* Between two calls of loop() the engine applies one change to the world.
engineReady == (pc = "engine" /\ tick < MaxTick) \/ pc = "idle"
engineFrame ==
  /\ pc' = "refresh"
  /\ UNCHANGED ground
  /\ UNCHANGED passes
  /\ UNCHANGED <<tick, initialized, myCreeps, tables, creepTargets, globalFocusTarget,
                 currentTank, lists, loopIdx, retreating, movedBy, combatAct, calls, issued, deathEvents, lostChargers, released, freed, field,
                 prevTank, armyObjective, objectiveFlags>>

Quiet == engineReady /\ engineFrame /\ UNCHANGED world

Kill ==
  /\ engineReady
  /\ \E S \in SUBSET wAlive :
       /\ S # {} /\ Cardinality(S) <= 2
       /\ wAlive' = wAlive \ S
       /\ wSpawning' = wSpawning \ S
       /\ wHits' = [id \in UnitIds |-> IF id \in S THEN 0 ELSE wHits[id]]
  /\ engineFrame
  /\ UNCHANGED <<wBody, wPos, wEnergy, wEnemies, wFlagOwner, wTowers, wContainers>>

\* a creep whose id was never seen joins, still spawning or already complete
Spawn ==
  /\ engineReady
  /\ \E id \in RosterIds \ wAlive, sp \in BOOLEAN :
       /\ wHits[id] > 0
       /\ wAlive' = wAlive \cup {id}
       /\ wSpawning' = IF sp THEN wSpawning \cup {id} ELSE wSpawning
  /\ engineFrame
  /\ UNCHANGED <<wBody, wHits, wPos, wEnergy, wEnemies, wFlagOwner, wTowers, wContainers>>

FinishSpawn ==
  /\ engineReady
  /\ wSpawning # {}
  /\ wSpawning' = {}
  /\ engineFrame
  /\ UNCHANGED <<wAlive, wBody, wHits, wPos, wEnergy, wEnemies, wFlagOwner, wTowers,
                 wContainers>>

Damage ==
  /\ engineReady
  /\ \E id \in wAlive, pct \in HitLevels :
       /\ pct * Len(BodyOf(id)) # wHits[id]
       /\ wHits' = [wHits EXCEPT ![id] = pct * Len(BodyOf(id))]
  /\ engineFrame
  /\ UNCHANGED <<wAlive, wBody, wSpawning, wPos, wEnergy, wEnemies, wFlagOwner, wTowers,
                 wContainers>>

Step ==
  /\ engineReady
  /\ \E id \in wAlive, p \in UnitTiles :
       /\ getRange(wPos[id], p) = 1
       /\ wPos' = [wPos EXCEPT ![id] = p]
  /\ engineFrame
  /\ UNCHANGED <<wAlive, wBody, wSpawning, wHits, wEnergy, wEnemies, wFlagOwner, wTowers,
                 wContainers>>

\* a creep's cargo changes (withdraw, transfer, pickup); what it withdrew may have been
\* the last energy of the containers
Carry ==
  /\ engineReady
  /\ \E id \in wAlive, e \in EnergyLevels, drained \in BOOLEAN :
       /\ e # wEnergy[id]
       /\ e <= CarryCapacity * countParts(id, CARRY)
       /\ drained => e > wEnergy[id] /\ \E c \in ContainerIds : wContainers[c] > 0
       /\ wEnergy' = [wEnergy EXCEPT ![id] = e]
       /\ wContainers' = IF drained THEN [c \in ContainerIds |-> 0] ELSE wContainers
  /\ engineFrame
  /\ UNCHANGED <<wAlive, wBody, wSpawning, wHits, wPos, wEnemies, wFlagOwner, wTowers>>

FlagChange ==
  /\ engineReady
  /\ \E f \in FlagIds, o \in {"my", "enemy", "neutral"} :
       /\ o # wFlagOwner[f]
       /\ wFlagOwner' = [wFlagOwner EXCEPT ![f] = o]
  /\ engineFrame
  /\ UNCHANGED <<wAlive, wBody, wSpawning, wHits, wPos, wEnergy, wEnemies, wTowers, wContainers>>

TowerChange ==
  /\ engineReady
  /\ \E t \in TowerIds :
       /\ wTowers[t].exists
       /\ \/ \E u \in TowerLevels :
               u # wTowers[t].used /\ wTowers' = [wTowers EXCEPT ![t].used = u]
          \/ \E o \in {"my", "enemy"} :
               o # wTowers[t].owner /\ wTowers' = [wTowers EXCEPT ![t].owner = o]
          \/ wTowers' = [wTowers EXCEPT ![t].exists = FALSE]
  /\ engineFrame
  /\ UNCHANGED <<wAlive, wBody, wSpawning, wHits, wPos, wEnergy, wEnemies, wFlagOwner,
                 wContainers>>

ContainerChange ==
  /\ engineReady
  /\ \E c \in ContainerIds, e \in {0, 100} :
       /\ e # wContainers[c]
       /\ wContainers' = [wContainers EXCEPT ![c] = e]
  /\ engineFrame
  /\ UNCHANGED <<wAlive, wBody, wSpawning, wHits, wPos, wEnergy, wEnemies, wFlagOwner, wTowers>>

EnemyChange ==
  /\ engineReady
  /\ \E e \in MatchEnemies :
       \/ \E p \in EnemyTiles, h \in {90, EnemyHitsMax(e)} :
            /\ [alive |-> TRUE, hits |-> h, pos |-> p, body |-> wEnemies[e].body] # wEnemies[e]
            /\ wEnemies' = [wEnemies EXCEPT ![e] = [alive |-> TRUE, hits |-> h, pos |-> p,
                                                    body |-> wEnemies[e].body]]
       \/ /\ wEnemies[e].alive
          /\ wEnemies' = [wEnemies EXCEPT ![e].alive = FALSE]
  /\ engineFrame
  /\ UNCHANGED <<wAlive, wBody, wSpawning, wHits, wPos, wEnergy, wFlagOwner, wTowers, wContainers>>

\* The world stays as it is for a run of ticks, up to the tick `to`: in every tick of the
\* run loop() leaves the tables as they are and asks getInfluenceMap() for the field,
\* which is rebuilt every INFLUENCE_REFRESH_TICKS ticks. The run is one step.
idleBuilds(to) == (to - lastInfluenceTick) \div INFLUENCE_REFRESH_TICKS
idleTo(to) ==
  /\ tick < to
  /\ tick' = to
  /\ influenceMatrix' = IF idleBuilds(to) > 0 THEN buildInfluenceMap ELSE influenceMatrix
  /\ lastInfluenceTick' = lastInfluenceTick + INFLUENCE_REFRESH_TICKS * idleBuilds(to)
  /\ fieldBuilds' = IF lastInfluenceTick' = to THEN 1 ELSE 0
  /\ pc' = "idle"
  /\ UNCHANGED passes
  /\ UNCHANGED <<world, initialized, myCreeps, tables, creepTargets, globalFocusTarget,
                 currentTank, lists, loopIdx, retreating, movedBy, combatAct, calls, issued, deathEvents,
                 lostChargers, released, freed, prevTank, armyObjective, objectiveFlags>>
\* the tick before the next role re-evaluation
reevalNext == ROLE_REEVAL_TICKS * ((tick \div ROLE_REEVAL_TICKS) + 1) - 1
\* the tick before the field reaches the refresh age
rebuildNext == lastInfluenceTick + INFLUENCE_REFRESH_TICKS - 1
Idle ==
  /\ pc = "engine" /\ tick < MaxTick
  /\ idleTo(reevalNext)
IdleField ==
  /\ pc = "engine" /\ tick < MaxTick
  /\ idleTo(rebuildNext)

EngineStep ==
  \/ Quiet \/ Kill \/ Spawn \/ FinishSpawn \/ Damage \/ Step \/ Carry
  \/ FlagChange \/ TowerChange \/ ContainerChange \/ EnemyChange

\* ----------------------------------------------------------- the program
StartTile(id) == Pt(14 + ((id + 1) % 3), 5)

\* nobody tired, nothing on the ground, a flee path from every tile
OpenGround == wFatigue = {} /\ wBodyParts = <<>> /\ wCornered = {}

\* what the constructor leaves: empty tables, nothing initialised
InitProgram ==
  /\ tick = 0
  /\ initialized = FALSE
  /\ myCreeps = <<>>
  /\ creepRoles = [id \in UnitIds |-> NoRole]
  /\ towerChargeAssigned = [t \in TowerIds |-> None]
  /\ chargerToTower = [id \in UnitIds |-> None]
  /\ chargerState = [id \in UnitIds |-> "none"]
  /\ creepTargets = [id \in UnitIds |-> Absent]
  /\ globalFocusTarget = None
  /\ currentTank = None
  /\ myVanguards = <<>> /\ myRangers = <<>> /\ myMedics = <<>> /\ myRunners = <<>>
  /\ pc = "refresh"
  /\ loopIdx = 1
  /\ retreating = {}
  /\ movedBy = [id \in UnitIds |-> "none"]
  /\ combatAct = [id \in UnitIds |-> NoAction]
  /\ calls = [id \in UnitIds |-> <<>>]
  /\ issued = [id \in UnitIds |-> <<>>]
  /\ passes = <<>>
  /\ deathEvents = {}
  /\ lostChargers = {}
  /\ released = {}
  /\ freed = {}
  /\ influenceMatrix = NullMatrix
  /\ lastInfluenceTick = MinusInfinity
  /\ fieldBuilds = 0
  /\ prevTank = None
  /\ armyObjective = NullTarget
  /\ objectiveFlags = wFlagOwner

\* a match: the roster at full health, one of its creeps possibly not yet there, the
\* last of them possibly still spawning, the first with its cargo full, the home flag owned, two neutral flags, two
\* owned towers of which the second, or both, may be empty
Init ==
  /\ wAlive \in {S \in SUBSET RosterIds : Cardinality(S) >= MaxUnits - 1}
  /\ wBody = [id \in UnitIds |-> Loadouts[((id - 1) % Len(Loadouts)) + 1]]
  /\ wSpawning \in {{}, {MaxUnits} \cap wAlive}
  /\ wHits = [id \in UnitIds |-> PartHits * Len(wBody[id])]
  /\ wPos = [id \in UnitIds |-> StartTile(id)]
  /\ wEnergy = [id \in UnitIds |-> IF id = 1 THEN CarryCapacity * countParts(id, CARRY) ELSE 0]
  /\ wEnemies = [e \in EnemyIds |-> [alive |-> FALSE, hits |-> PartHits * Len(EnemyLoadout(e)),
                                     pos |-> Pt(17, 5), body |-> EnemyLoadout(e)]]
  /\ wFlagOwner = [f \in FlagIds |-> IF f = 1 THEN "my" ELSE "neutral"]
  /\ \E u1 \in {0, 50} : \E u2 \in {0, u1} :
       wTowers = [t \in TowerIds |->
                    [exists |-> TRUE, owner |-> "my", used |-> IF t = 1 THEN u1 ELSE u2,
                     cap |-> 50]]
  /\ wContainers = [c \in ContainerIds |-> 100]
  /\ OpenGround
  /\ InitProgram

Next ==
  \/ EngineStep
  \/ Idle
  \/ refreshWorldState
  \/ Initialize
  \/ Reevaluate
  \/ precomputeRoleLists
  \/ refreshInfluence
  \/ ReleaseChargers
  \/ AssignChargers
  \/ commandLayer
  \/ executeTick
  \/ EndLoop

Spec == Init /\ [][Next]_vars

\* ------------------------------------------------------------- Scenario A
\* ScenarioUnits melee-only creeps on two tiles, no enemies, no home flag, two neutral
\* flags, no towers; the program runs its first tick.
ScenarioIds == 1..ScenarioUnits
ScenarioTiles == {Pt(14, 5), Pt(16, 5)}

InitA ==
  /\ wAlive = ScenarioIds
  /\ \E k \in 1..3 :
       wBody = [id \in UnitIds |-> MeleeLoadouts[((id * k) % Len(MeleeLoadouts)) + 1]]
  /\ wSpawning = {}
  /\ wHits = [id \in UnitIds |-> PartHits * Len(wBody[id])]
  /\ wPos \in [UnitIds -> ScenarioTiles]
  /\ \A id \in UnitIds \ ScenarioIds : wPos[id] = Pt(14, 5)
  /\ wEnergy = [id \in UnitIds |-> 0]
  /\ wEnemies = [e \in EnemyIds |-> [alive |-> FALSE, hits |-> PartHits * Len(EnemyLoadout(e)),
                                     pos |-> Pt(17, 5), body |-> EnemyLoadout(e)]]
  /\ wFlagOwner = [f \in FlagIds |-> IF f = 1 THEN "absent" ELSE "neutral"]
  /\ wTowers = [t \in TowerIds |-> [exists |-> FALSE, owner |-> "my", used |-> 0,
                                    cap |-> 50]]
  /\ wContainers = [c \in ContainerIds |-> 0]
  /\ OpenGround
  /\ InitProgram

NextA ==
  \/ refreshWorldState
  \/ Initialize
  \/ Reevaluate
  \/ precomputeRoleLists
  \/ refreshInfluence
  \/ ReleaseChargers
  \/ AssignChargers
  \/ commandLayer
  \/ executeTick
  \/ EndLoop

SpecA == InitA /\ [][NextA]_vars

\* ------------------------------------------------------- the field of a tick
\* Two creeps, an enemy of one of three bodies near the arena edge or in the middle of
\* the arena, the two towers owned or hostile; the program runs its first tick, which
\* builds the field.
EnemyBodies ==
  {<<MOVE>>, <<RANGED_ATTACK, HEAL, MOVE>>, <<ATTACK, ATTACK, ATTACK, ATTACK, ATTACK>>}
FieldEnemyTiles == {Pt(50, 50), Pt(6, 5), Pt(1, 5)}
FieldAllyTiles == {Pt(4, 5), Pt(0, 5), Pt(52, 50)}
FieldNoEnemy == [alive |-> FALSE, hits |-> PartHits, pos |-> Pt(50, 50), body |-> <<MOVE>>]
FieldEnemies ==
  {FieldNoEnemy}
    \cup {[alive |-> TRUE, hits |-> h, pos |-> q, body |-> b] :
            h \in {90, PartHits * 5}, q \in FieldEnemyTiles, b \in EnemyBodies}

InitI ==
  /\ wAlive = {1, 2}
  /\ wBody = [id \in UnitIds |-> Loadouts[((id - 1) % Len(Loadouts)) + 1]]
  /\ wSpawning = {}
  /\ wHits = [id \in UnitIds |-> PartHits * Len(wBody[id])]
  /\ \E p1 \in FieldAllyTiles, p2 \in FieldAllyTiles :
       wPos = [id \in UnitIds |-> IF id = 1 THEN p1 ELSE p2]
  /\ wEnergy = [id \in UnitIds |-> 0]
  /\ \E choice \in [MatchEnemies -> FieldEnemies] :
       wEnemies = [e \in EnemyIds |-> IF e \in MatchEnemies THEN choice[e]
                                      ELSE FieldNoEnemy]
  /\ \A e \in EnemyIds : wEnemies[e].hits <= PartHits * Len(wEnemies[e].body)
  /\ wFlagOwner = [f \in FlagIds |-> IF f = 1 THEN "my" ELSE "neutral"]
  /\ \E o1 \in {"my", "enemy"}, o2 \in {"my", "enemy"}, u1 \in {0, 50} :
       wTowers = [t \in TowerIds |->
                    [exists |-> TRUE, owner |-> IF t = 1 THEN o1 ELSE o2,
                     used |-> IF t = 1 THEN u1 ELSE 50, cap |-> 50]]
  /\ wContainers = [c \in ContainerIds |-> 100]
  /\ OpenGround
  /\ InitProgram

SpecI == InitI /\ [][NextA]_vars

\* ------------------------------------------------------- the focus of a tick
\* A Ranger in the middle of the arena, a Medic next to it or on either side, two enemies
\* four tiles from the Ranger, each at 90 or at full hits, and possibly an enemy healer
\* out of reach behind one of them; the program runs its first tick.
FocusBodies ==
  {<<MOVE, MOVE, MOVE, MOVE, ATTACK>>, <<MOVE, MOVE, MOVE, MOVE, RANGED_ATTACK>>}
FocusTiles == {Pt(46, 50), Pt(54, 50)}
MedicTiles == {Pt(50, 50), Pt(57, 50), Pt(40, 50)}
HealerTiles == {Pt(59, 50), Pt(41, 50)}
FocusEnemies ==
  {[alive |-> TRUE, hits |-> h, pos |-> q, body |-> b] :
     h \in {90, PartHits * 5}, q \in FocusTiles, b \in FocusBodies}
FocusHealers ==
  {[alive |-> a, hits |-> PartHits * 2, pos |-> q, body |-> <<HEAL, MOVE>>] :
     a \in BOOLEAN, q \in HealerTiles}

InitT ==
  /\ wAlive = {1, 2}
  /\ wBody = [id \in UnitIds |-> IF id = 1 THEN <<RANGED_ATTACK, RANGED_ATTACK, MOVE>>
                                  ELSE <<HEAL, HEAL, MOVE>>]
  /\ wSpawning = {}
  /\ wHits = [id \in UnitIds |-> PartHits * Len(wBody[id])]
  /\ \E m \in MedicTiles : wPos = [id \in UnitIds |-> IF id = 1 THEN Pt(50, 50) ELSE m]
  /\ wEnergy = [id \in UnitIds |-> 0]
  /\ \E e1 \in FocusEnemies, e2 \in FocusEnemies, e3 \in FocusHealers :
       /\ ~e3.alive => e3.pos = Pt(59, 50)
       /\ wEnemies = [e \in EnemyIds |-> CASE e = 1 -> e1 [] e = 2 -> e2 [] e = 3 -> e3
                                           [] OTHER -> FieldNoEnemy]
  /\ wFlagOwner = [f \in FlagIds |-> IF f = 1 THEN "my" ELSE "neutral"]
  /\ wTowers = [t \in TowerIds |-> [exists |-> TRUE, owner |-> "my", used |-> 50,
                                    cap |-> 50]]
  /\ wContainers = [c \in ContainerIds |-> 100]
  /\ OpenGround
  /\ InitProgram

SpecT == InitT /\ [][NextA]_vars

\* ------------------------------------------------------------- Scenario B
\* One owned ranged creep in the middle of the arena, whole or damaged, and three enemies,
\* each next to it or three tiles away, each at 90 or at full hits; the program runs its
\* first tick.
NearTile(e) == CASE e = 1 -> Pt(49, 50) [] e = 2 -> Pt(51, 50) [] OTHER -> Pt(50, 51)
FarTile(e) == CASE e = 1 -> Pt(47, 50) [] e = 2 -> Pt(53, 50) [] OTHER -> Pt(50, 53)
ScenarioBEnemies == 1..3

InitB ==
  /\ wAlive = {1}
  /\ wBody = [id \in UnitIds |-> <<RANGED_ATTACK, RANGED_ATTACK, MOVE>>]
  /\ wSpawning = {}
  /\ \E h \in {100, 200, 300} : wHits = [id \in UnitIds |-> h]
  /\ wPos = [id \in UnitIds |-> Pt(50, 50)]
  /\ wEnergy = [id \in UnitIds |-> 0]
  /\ \E near \in SUBSET ScenarioBEnemies, low \in SUBSET ScenarioBEnemies :
       wEnemies = [e \in EnemyIds |->
                     IF e \in ScenarioBEnemies
                     THEN [alive |-> TRUE, hits |-> IF e \in low THEN 90 ELSE PartHits * 5,
                           pos |-> IF e \in near THEN NearTile(e) ELSE FarTile(e),
                           body |-> <<MOVE, MOVE, MOVE, MOVE, ATTACK>>]
                     ELSE FieldNoEnemy]
  /\ wFlagOwner = [f \in FlagIds |-> IF f = 1 THEN "my" ELSE "neutral"]
  /\ wTowers = [t \in TowerIds |-> [exists |-> TRUE, owner |-> "my", used |-> 50,
                                    cap |-> 50]]
  /\ wContainers = [c \in ContainerIds |-> 100]
  /\ OpenGround
  /\ InitProgram

SpecB == InitB /\ [][NextA]_vars

\* ------------------------------------------------------- the age of the field
\* A match with the roster, its last creep possibly not there yet, and both towers
\* charged, in which a quiet run of ticks
\* may also end where the field reaches its refresh age.
InitF ==
  /\ Init
  /\ RosterIds \ {MaxUnits} \subseteq wAlive
  /\ \A t \in TowerIds : wTowers[t].used = 50
NextF == Next \/ IdleField
SpecF == InitF /\ [][NextF]_vars

\* ------------------------------------------------------- the tank of a match
\* A match with the roster, its last creep possibly not there yet, in which a creep may
\* also be wounded to half of its hits: below full health
\* and above the health floor of the tank.
Wound ==
  /\ engineReady
  /\ \E id \in wAlive :
       /\ wHits[id] = HitsMax(id)
       /\ wHits' = [wHits EXCEPT ![id] = (PartHits \div 2) * Len(BodyOf(id))]
  /\ engineFrame
  /\ UNCHANGED <<wAlive, wBody, wSpawning, wPos, wEnergy, wEnemies, wFlagOwner, wTowers,
                 wContainers>>
InitK ==
  /\ Init
  /\ RosterIds \ {MaxUnits} \subseteq wAlive
NextK == Next \/ Wound
SpecK == InitK /\ [][NextK]_vars

\* ---------------------------------------------------- the roles of a match
\* Five creeps, the first two melee creeps or healers, the others ranged creeps with or
\* without a melee or a heal part; the program runs its first tick, a second tick or,
\* after a quiet run of ticks, the tick of the first role re-evaluation, and before it
\* creeps may die.
FrontBodies == {<<ATTACK, MOVE>>, <<ATTACK, ATTACK, MOVE, MOVE>>, <<HEAL, MOVE>>}
RangedBodies ==
  {<<RANGED_ATTACK, RANGED_ATTACK, MOVE>>,
   <<RANGED_ATTACK, RANGED_ATTACK, ATTACK, MOVE>>,
   <<RANGED_ATTACK, RANGED_ATTACK, HEAL, MOVE>>}
RoleIds == 1..5

InitR ==
  /\ wAlive = RoleIds
  /\ \E b1 \in FrontBodies, b2 \in FrontBodies, b3 \in RangedBodies, b4 \in RangedBodies,
        b5 \in RangedBodies \ {<<RANGED_ATTACK, RANGED_ATTACK, ATTACK, MOVE>>} :
       wBody = [id \in UnitIds |->
                  CASE id = 1 -> b1 [] id = 2 -> b2 [] id = 3 -> b3 [] id = 4 -> b4
                    [] OTHER -> b5]
  /\ wSpawning = {}
  /\ wHits = [id \in UnitIds |-> PartHits * Len(wBody[id])]
  /\ wPos = [id \in UnitIds |-> StartTile(id)]
  /\ wEnergy = [id \in UnitIds |-> 0]
  /\ wEnemies = [e \in EnemyIds |-> [alive |-> FALSE, hits |-> PartHits * Len(EnemyLoadout(e)),
                                     pos |-> Pt(17, 5), body |-> EnemyLoadout(e)]]
  /\ wFlagOwner = [f \in FlagIds |-> IF f = 1 THEN "my" ELSE "neutral"]
  /\ wTowers = [t \in TowerIds |-> [exists |-> TRUE, owner |-> "my", used |-> 50,
                                    cap |-> 50]]
  /\ wContainers = [c \in ContainerIds |-> 100]
  /\ OpenGround
  /\ InitProgram

NextR == NextA \/ Idle \/ Quiet \/ Kill
SpecR == InitR /\ [][NextR]_vars

\* ------------------------------------------------------ the moves of a tick
\* The first tick of a skirmish: two Runners, the first a carrier next to the towers, a
\* Vanguard, a Ranger and a Medic at several health levels and tiles, in front of no
\* enemy, a ranged one, a ranged and a melee one, or three around a Ranger left alone.
MoveBody(id) ==
  CASE id = 1 -> <<ATTACK, MOVE, MOVE, CARRY>> [] id = 2 -> <<ATTACK, MOVE, MOVE>>
    [] id = 3 -> <<ATTACK, ATTACK, MOVE>> [] id = 4 -> <<RANGED_ATTACK, RANGED_ATTACK, MOVE>>
    [] OTHER -> <<HEAL, HEAL, MOVE>>
MoveIds == 1..5
VanguardTiles == {Pt(14, 5), Pt(17, 5)}
RangerTiles == {Pt(15, 5), Pt(40, 5)}
MedicSpots == {Pt(15, 6), Pt(18, 5)}
\* the enemies 1..k alive, enemy e on tiles[e]
Foes(k, tiles) ==
  [e \in EnemyIds |-> [alive |-> e <= k, hits |-> PartHits * Len(EnemyLoadout(e)),
                       pos |-> IF e <= Len(tiles) THEN tiles[e] ELSE Pt(17, 5),
                       body |-> EnemyLoadout(e)]]
Skirmishes ==
  {Foes(0, <<>>), Foes(1, <<Pt(20, 5)>>), Foes(2, <<Pt(20, 5), Pt(19, 6)>>),
   Foes(3, <<Pt(41, 5), Pt(42, 5), Pt(43, 5)>>)}
Grounds ==
  {<<{}, <<>>, {}>>, <<{4, 5}, <<>>, {}>>, <<{}, <<>>, {4, 5}>>,
   <<{}, <<Pt(15, 6), Pt(16, 5)>>, {}>>}

InitM ==
  /\ wEnemies \in Skirmishes
  /\ wAlive = IF wEnemies[3].alive THEN MoveIds \ {2} ELSE MoveIds
  /\ wBody = [id \in UnitIds |-> MoveBody(id)]
  /\ wSpawning = {}
  /\ \E h1 \in {20, 100}, h3 \in {40, 100}, h4 \in {20, 60, 100}, h5 \in {20, 100} :
       wHits = [id \in UnitIds |->
                  Len(wBody[id]) * (CASE id = 1 -> h1 [] id = 3 -> h3 [] id = 4 -> h4
                                      [] id = 5 -> h5 [] OTHER -> PartHits)]
  /\ \E p3 \in VanguardTiles, p4 \in RangerTiles, p5 \in MedicSpots :
       wPos = [id \in UnitIds |->
                 CASE id = 1 -> Pt(7, 6) [] id = 3 -> p3 [] id = 4 -> p4 [] id = 5 -> p5
                   [] OTHER -> Pt(6, 6)]
  /\ wEnergy = [id \in UnitIds |-> 0]
  /\ wFlagOwner = [f \in FlagIds |-> IF f = 1 THEN "my" ELSE "neutral"]
  /\ \E u1 \in {0, 50} :
       wTowers = [t \in TowerIds |-> [exists |-> TRUE, owner |-> "my",
                                      used |-> IF t = 1 THEN u1 ELSE 50, cap |-> 50]]
  /\ wContainers = [c \in ContainerIds |-> 100]
  /\ \E g \in Grounds : wFatigue = g[1] /\ wBodyParts = g[2] /\ wCornered = g[3]
  /\ InitProgram

SpecM == InitM /\ [][NextA]_vars

\* The same skirmish on open ground with an empty first tower, the carrier loaded or not
InitO ==
  /\ wEnemies \in {Foes(1, <<Pt(20, 5)>>), Foes(2, <<Pt(20, 5), Pt(19, 6)>>)}
  /\ wAlive = MoveIds
  /\ wBody = [id \in UnitIds |-> MoveBody(id)]
  /\ wSpawning = {}
  /\ \E h1 \in {20, 100}, h4 \in {20, 60, 100}, h5 \in {20, 100} :
       wHits = [id \in UnitIds |->
                  Len(wBody[id]) * (CASE id = 1 -> h1 [] id = 4 -> h4 [] id = 5 -> h5
                                      [] OTHER -> PartHits)]
  /\ \E p3 \in VanguardTiles, p5 \in MedicSpots :
       wPos = [id \in UnitIds |->
                 CASE id = 1 -> Pt(7, 6) [] id = 3 -> p3 [] id = 4 -> Pt(15, 5) [] id = 5 -> p5
                   [] OTHER -> Pt(6, 6)]
  /\ \E cargo \in {0, CarryCapacity} : wEnergy = [id \in UnitIds |-> IF id = 1 THEN cargo ELSE 0]
  /\ wFlagOwner = [f \in FlagIds |-> IF f = 1 THEN "my" ELSE "neutral"]
  /\ wTowers = [t \in TowerIds |-> [exists |-> TRUE, owner |-> "my",
                                    used |-> IF t = 1 THEN 0 ELSE 50, cap |-> 50]]
  /\ wContainers = [c \in ContainerIds |-> 100]
  /\ OpenGround
  /\ InitProgram

SpecO == InitO /\ [][NextA]_vars

\* ------------------------------------------------- the defence of the flags
\* Two fast melee creeps (the Runners), a slow melee creep, a ranged creep and a healer
\* with a carry part; the home flag owned, the second flag neutral or hostile, the third
\* owned or hostile; up to three enemies, each near the home flag or near the third flag;
\* the first tower empty or charged; the program runs its first tick.
DefenceBody(id) ==
  CASE id \in {1, 2} -> <<ATTACK, MOVE, MOVE>>
    [] id = 3 -> <<ATTACK, ATTACK, MOVE>>
    [] id = 4 -> <<RANGED_ATTACK, RANGED_ATTACK, MOVE>>
    [] OTHER -> <<CARRY, HEAL, MOVE>>
DefenceTiles(id) ==
  CASE id = 2 -> {Pt(50, 50), Pt(2, 5)}
    [] id = 3 -> {Pt(14, 5), Pt(40, 5)}
    [] id = 4 -> {Pt(0, 9), Pt(16, 5), Pt(30, 5)}
    [] OTHER -> {Pt(4, 5), Pt(15, 5)}
RaiderTiles == {Pt(8, 5), Pt(28, 5)}
Raiders ==
  {FieldNoEnemy}
    \cup {[alive |-> TRUE, hits |-> PartHits * 3, pos |-> q, body |-> <<ATTACK, ATTACK, MOVE>>] :
            q \in RaiderTiles}

InitD ==
  /\ wAlive = 1..5
  /\ wBody = [id \in UnitIds |-> DefenceBody(id)]
  /\ wSpawning = {}
  /\ wHits = [id \in UnitIds |-> PartHits * Len(wBody[id])]
  /\ \E p2 \in DefenceTiles(2), p3 \in DefenceTiles(3), p4 \in DefenceTiles(4),
        p5 \in DefenceTiles(5) :
       wPos = [id \in UnitIds |->
                 CASE id = 2 -> p2 [] id = 3 -> p3 [] id = 4 -> p4 [] id = 5 -> p5
                   [] OTHER -> Pt(50, 50)]
  /\ wEnergy = [id \in UnitIds |-> 0]
  /\ \E r1 \in Raiders, r2 \in Raiders, r3 \in Raiders :
       wEnemies = [e \in EnemyIds |-> CASE e = 1 -> r1 [] e = 2 -> r2 [] e = 3 -> r3
                                           [] OTHER -> FieldNoEnemy]
  /\ \E o2 \in {"neutral", "enemy"}, o3 \in {"my", "enemy"} :
       wFlagOwner = [f \in FlagIds |-> CASE f = 1 -> "my" [] f = 2 -> o2 [] OTHER -> o3]
  /\ \E u1 \in {0, 50} :
       wTowers = [t \in TowerIds |->
                    [exists |-> TRUE, owner |-> "my", used |-> IF t = 1 THEN u1 ELSE 50,
                     cap |-> 50]]
  /\ wContainers = [c \in ContainerIds |-> 100]
  /\ OpenGround
  /\ InitProgram

SpecD == InitD /\ [][NextA]_vars

\* ================================================================ claims
\* The tick's snapshot is taken: every pass but refreshWorldState itself has run on it.
snapshotTaken == pc # "refresh"
\* The per-unit resolvers run, or have just run, on this tick's snapshot.
resolversRun == pc \in {"units", "engine"}
Roles == {ROLE_VANGUARD, ROLE_RANGER, ROLE_MEDIC, ROLE_SENTINEL, ROLE_RUNNER}

\* C1 (as the specification states it): when the per-unit resolvers run, every living
\* owned unit has a role, a unit first observed after the first tick included.
C1_EveryLivingUnitHasRole ==
  resolversRun => \A id \in Range(myCreeps) : creepRoles[id] \in Roles

\* C2: once refreshWorldState has run, the role table holds no id that is not in the
\* current snapshot of living owned units.
C2_NoRoleOfDeadUnit ==
  snapshotTaken =>
    \A id \in UnitIds : creepRoles[id] # NoRole => id \in Range(myCreeps) /\ id \in wAlive
\* a unit that had a role died and refreshWorldState dropped its entry
C2_Witness ==
  /\ pc = "init"
  /\ \E ev \in deathEvents :
       ev.role \in Roles /\ ev.id \notin Range(myCreeps) /\ creepRoles[ev.id] = NoRole
  /\ \E id \in Range(myCreeps) : creepRoles[id] \in Roles

\* C3: in every state towerChargeAssigned and chargerToTower are inverse to each other:
\* a tower is bound to a charger exactly when that charger is bound to that tower.
C3_TablesInverse ==
  /\ \A t \in TowerIds : towerChargeAssigned[t] \in UnitIds \cup {None}
  /\ \A c \in UnitIds : chargerToTower[c] \in TowerIds \cup {None}
  /\ \A t \in TowerIds, c \in UnitIds :
       towerChargeAssigned[t] = c <=> chargerToTower[c] = t
\* a bound charger died, its pair was dropped, and another pair is in the tables
C3_Witness ==
  /\ pc = "command"
  /\ lostChargers # {}
  /\ \E t \in TowerIds : towerChargeAssigned[t] # None

\* C4: after the release pass every binding that remains names a charger that is alive
\* and a tower that still exists.
C4_BindingsAliveAfterRelease ==
  pc \in {"assign", "command", "units", "engine"} =>
    /\ \A t \in TowerIds :
         towerChargeAssigned[t] # None =>
           /\ towerChargeAssigned[t] \in Range(myCreeps)
           /\ towerChargeAssigned[t] \in wAlive
           /\ towerExists(t)
    /\ \A c \in UnitIds :
         chargerToTower[c] # None =>
           c \in Range(myCreeps) /\ c \in wAlive /\ towerExists(chargerToTower[c])
\* the release pass dropped the binding of a vanished tower and left another binding
C4_Witness ==
  /\ pc = "assign"
  /\ \E t \in released : ~towerExists(t)
  /\ \E t \in TowerIds : towerChargeAssigned[t] # None

\* C5: a bound charger missing from the snapshot has its tower binding, its reverse
\* binding and its FSM state removed before that tick's assignment pass, so that the
\* tower is free for the pass to bind again.
C5_LostChargerUnbound ==
  /\ snapshotTaken =>
       \A l \in lostChargers :
         /\ chargerToTower[l.id] = None
         /\ chargerState[l.id] = "none"
         /\ \A t \in TowerIds : towerChargeAssigned[t] # l.id
  /\ pc \in {"init", "reeval", "precompute", "release", "assign"} =>
       \A l \in lostChargers : towerChargeAssigned[l.tower] = None
\* the tower of a charger that died was bound to another unit by the same tick's pass
C5_Witness ==
  /\ pc = "command"
  /\ \E l \in lostChargers :
       /\ towerChargeAssigned[l.tower] \in Range(myCreeps)
       /\ towerChargeAssigned[l.tower] # l.id

\* C6 (as the specification states it): after the cleanup and the commander passes,
\* creepTargets holds no entry keyed by a unit that is no longer alive.
C6_NoTargetOfDeadUnit ==
  resolversRun => \A id \in UnitIds : creepTargets[id] # Absent => id \in Range(myCreeps)

\* C7 (as the specification states it): within the sticky window the objective of the
\* main army stays what the previous tick's commandLayer chose, unless a flag changed
\* hands or the objective disappeared.
C7_ObjectiveKept ==
  [][(/\ pc = "command"
      /\ tick <= STICKY_TICKS
      /\ mainArmy # <<>>
      /\ armyObjective.kind = "flag"
      /\ \E id \in Range(mainArmy) : creepTargets[id] = armyObjective
      /\ objectiveFlags = wFlagOwner)
     => armyObjective' = armyObjective]_vars

\* Scenario A: the snapshot is ScenarioUnits melee-only units, no enemy, two neutral
\* flags of which one is strictly nearer to the squad centroid.
nearerFlags ==
  {f \in Range(neutralFlags) :
     \A g \in Range(neutralFlags) \ {f} :
        getRange(squadCentroid, FlagPos(f)) < getRange(squadCentroid, FlagPos(g))}
scenarioA ==
  /\ resolversRun
  /\ Len(myCreeps) = ScenarioUnits
  /\ Len(neutralFlags) = 2
  /\ enemies = <<>>
  /\ nearerFlags # {}

\* C8 (as the specification states it): in scenario A all the units are given the
\* nearer flag.
C8_AllUnitsNearerFlag ==
  scenarioA =>
    \A id \in Range(myCreeps) : \A f \in nearerFlags : creepTargets[id] = FlagTarget(f)
\* C8 (amended): in scenario A every unit that is not a Runner is given the flag nearer
\* to the centroid of the non-Runner units, and the two Runners are given two different
\* flags.
C8_MainArmyNearerFlag ==
  scenarioA =>
    /\ \A id \in Range(myCreeps) :
         creepRoles[id] # ROLE_RUNNER =>
           \A f \in nearerFlags : creepTargets[id] = FlagTarget(f)
    /\ Len(myRunners) = MAX_RUNNERS
    /\ \A i, j \in DOMAIN myRunners :
         i # j => /\ creepTargets[myRunners[i]].kind = "flag"
                  /\ creepTargets[myRunners[i]] # creepTargets[myRunners[j]]
\* scenario A after commandLayer, with units on both tiles
C8_Witness ==
  /\ scenarioA
  /\ \E a, b \in Range(myVanguards) : wPos[a] # wPos[b]
  /\ \E id \in Range(myVanguards), f \in nearerFlags : creepTargets[id] = FlagTarget(f)

\* Scenario C: the incumbent tank is below the health floor.
belowFloor(c) == wHits[c] * 100 < HitsMax(c) * TANK_FLOOR_RATIO

C10_RetreatNeedsMedic ==
  snapshotTaken =>
    \A c \in retreating :
       /\ belowRetreat(c)
       /\ \E m \in Range(myCreeps) : m \in wAlive /\ creepRoles[m] = ROLE_MEDIC
\* a unit that is not a Medic retreats while a Medic that does not retreat is alive
C10_Witness ==
  /\ pc = "engine"
  /\ \E c \in retreating : creepRoles[c] # ROLE_MEDIC
  /\ \E m \in Range(myMedics) : m \notin retreating

\* C11 (as the specification states it): the stored FSM state of a bound unit goes from
\* Withdraw to Deliver only on a tick where its free cargo capacity is zero, and from
\* Deliver to Withdraw only on a tick where its carried energy is zero.
C11_TransitionsOnlyOnCargo ==
  [][\A c \in UnitIds :
       /\ (chargerState[c] = "WITHDRAW" /\ chargerState'[c] = "DELIVER") => storeFree(c) <= 0
       /\ (chargerState[c] = "DELIVER" /\ chargerState'[c] = "WITHDRAW") => wEnergy[c] <= 0]_vars
\* C11 (amended): the stored state goes from Withdraw to Deliver only on a tick where
\* the unit's free cargo capacity is zero, or where no container holds energy and the
\* unit carries some; it goes from Deliver to Withdraw only on a tick where its carried
\* energy is zero.
C11_TransitionsOnCargoOrNoSource ==
  [][\A c \in UnitIds :
       /\ (chargerState[c] = "WITHDRAW" /\ chargerState'[c] = "DELIVER") =>
            \/ storeFree(c) <= 0
            \/ energySrc = <<>> /\ wEnergy[c] > 0
       /\ (chargerState[c] = "DELIVER" /\ chargerState'[c] = "WITHDRAW") => wEnergy[c] <= 0]_vars
\* the charger FSM ran for a bound unit whose cargo is neither full nor empty while no
\* container holds energy, and left Deliver
C11_Witness ==
  /\ pc = "units"
  /\ \E c \in Range(myCreeps) :
       /\ isCharger(c)
       /\ movedBy[c] = "charger"
       /\ chargerState[c] = "DELIVER"
       /\ storeFree(c) > 0
       /\ wEnergy[c] > 0
       /\ energySrc = <<>>

\* the entries of creepTargets that this tick's commandLayer wrote
writtenTargets == commandTargets([id \in UnitIds |-> Absent])
\* unit u was given a target by this tick's commandLayer and moved by doMoveAction
backInCombat(u) ==
  /\ writtenTargets[u] \notin {Absent, NullTarget}
  /\ creepTargets[u] = writtenTargets[u]
  /\ movedBy[u] = "move"

\* C12 (as the specification states it): when the release pass finds a bound tower at or
\* above the fill threshold, the binding is removed in that pass, and in the same tick
\* the unit gets a commander movement target and is moved by the normal movement
\* resolver, not by the charger FSM.
C12_FreedUnitBackInCombat ==
  pc = "engine" =>
    \A f \in freed :
       /\ towerChargeAssigned[f.tower] = None
       /\ chargerToTower[f.id] = None
       /\ backInCombat(f.id)
\* C12 (amended): the binding is removed in that pass; unless the assign pass of the
\* same tick binds the unit to another, hungry tower, or the unit is still spawning, the
\* unit gets a commander movement target and is moved by the normal movement resolver
\* in that same tick.
C12_FreedUnitBackInCombatUnlessRebound ==
  pc = "engine" =>
    \A f \in freed :
       /\ towerChargeAssigned[f.tower] = None
       /\ chargerToTower[f.id] # f.tower
       /\ (chargerToTower[f.id] = None /\ f.id \notin wSpawning) => backInCombat(f.id)
       /\ chargerToTower[f.id] # None =>
            ~towerCharged(chargerToTower[f.id]) /\ movedBy[f.id] \in {"charger", "none"}
\* a unit was unbound because its tower was charged, and went back to combat
C12_Witness ==
  /\ pc = "engine"
  /\ \E f \in freed : chargerToTower[f.id] = None /\ backInCombat(f.id)

\* ---- the influence field (C13, C14, C15: SpecI)
\* The field was built from the snapshot of this tick.
fieldBuilt == influenceMatrix # NullMatrix /\ lastInfluenceTick = tick
MaxOf(S) == CHOOSE m \in S : \A v \in S : v <= m
threatsOn(p) == {e \in Range(enemies) : threatCovers(e, p)}
towersOn(p) == {t \in Range(enemyTowers) : towerCovers(t, p)}
alliesOn(p) == Cardinality({c \in Range(myCreeps) : wPos[c] = p})
\* the values of the enemies and towers whose overlay covers p
dangerValues(p) ==
  {threatCost(e, p) : e \in threatsOn(p)} \cup {towerCost(t, p) : t \in towersOn(p)}
\* the values of every overlay that covers p, and how many overlays these are
overlayValues(p) ==
  dangerValues(p) \cup (IF edgePenalty(p) > 0 THEN {edgePenalty(p)} ELSE {})
                  \cup (IF alliesOn(p) > 0 THEN {4} ELSE {})
overlayCount(p) ==
  Cardinality(threatsOn(p)) + Cardinality(towersOn(p))
    + (IF edgePenalty(p) > 0 THEN 1 ELSE 0) + alliesOn(p)

\* C13, as stated: a tile of the built field that more than one overlay covers holds the
\* maximum of the values of the overlays that cover it.
C13_OverlapIsMax ==
  fieldBuilt =>
    \A p \in FieldTiles :
       overlayCount(p) > 1 => influenceMatrix[p] = MaxOf(overlayValues(p))

\* C13, amended: a tile of the built field holds the maximum of the values of the enemy
\* threats and enemy towers that cover it, plus the arena-edge penalty, plus 4 for every
\* owned creep that stands on it, clamped at 254: the two penalties are added.
C13_DangerIsMaxPenaltiesAdd ==
  fieldBuilt =>
    \A p \in FieldTiles :
       influenceMatrix[p] =
         Min2(254, MaxOf(dangerValues(p) \cup {0}) + edgePenalty(p) + 4 * alliesOn(p))

\* a built field with a tile that an enemy threat, an energized enemy tower of another
\* value, the edge penalty and an owned creep all cover, below the clamp
C13_Witness ==
  /\ fieldBuilt
  /\ \E p \in FieldTiles :
       /\ threatsOn(p) # {} /\ towersOn(p) # {} /\ edgePenalty(p) > 0 /\ alliesOn(p) > 0
       /\ Cardinality(dangerValues(p)) > 1
       /\ influenceMatrix[p] < 254

\* C14: every tile of the built field holds a value in 0..254.
C14_TilesInRange ==
  fieldBuilt => \A p \in FieldTiles : influenceMatrix[p] \in 0..254

\* a built field with a tile on which an owned creep stands and whose overlays add up
\* to more than 254
C14_Witness ==
  /\ fieldBuilt
  /\ \E p \in FieldTiles :
       /\ alliesOn(p) > 0 /\ dangerValues(p) # {}
       /\ MaxOf(dangerValues(p)) + edgePenalty(p) > 254
       /\ influenceMatrix[p] = 254

\* the tiles on which the field holds what the one enemy contributes: away from the arena
\* edge, no wall, no owned creep, no enemy tower value
threatOnly(p) ==
  /\ getTerrainAt(p) # "wall" /\ edgePenalty(p) = 0 /\ alliesOn(p) = 0
  /\ \A t \in towersOn(p) : towerCost(t, p) = 0
oneThreat == fieldBuilt /\ Len(enemies) = 1

\* C15, as stated: with one enemy, the cost on the tiles that hold its contribution alone
\* does not grow with the Chebyshev distance from the enemy, whatever their terrain, and
\* is zero beyond the threat radius.
C15_CostFallsWithDistance ==
  oneThreat =>
    \A p \in FieldTiles, q \in FieldTiles :
       threatOnly(p) /\ threatOnly(q) =>
         /\ getRange(enemyPos[enemies[1]], p) <= getRange(enemyPos[enemies[1]], q)
              => influenceMatrix[p] >= influenceMatrix[q]
         /\ getRange(enemyPos[enemies[1]], p) > ENEMY_THREAT_RADIUS => influenceMatrix[p] = 0

\* C15, amended: the same, for two tiles of the same terrain.
C15_CostFallsWithDistanceOnOneTerrain ==
  oneThreat =>
    \A p \in FieldTiles, q \in FieldTiles :
       threatOnly(p) /\ threatOnly(q) =>
         /\ (/\ getTerrainAt(p) = getTerrainAt(q)
             /\ getRange(enemyPos[enemies[1]], p) <= getRange(enemyPos[enemies[1]], q))
              => influenceMatrix[p] >= influenceMatrix[q]
         /\ getRange(enemyPos[enemies[1]], p) > ENEMY_THREAT_RADIUS => influenceMatrix[p] = 0

\* one enemy in the middle of the arena: its cost falls from the plain tile next to it
\* to the next plain tile, differs on two swamp tiles, and is zero past the radius
C15_Witness ==
  /\ oneThreat
  /\ enemyPos[enemies[1]] = Pt(50, 50)
  /\ threatOnly(Pt(51, 50)) /\ threatOnly(Pt(49, 50)) /\ threatOnly(Pt(53, 50))
  /\ influenceMatrix[Pt(49, 50)] > influenceMatrix[Pt(48, 50)]
  /\ influenceMatrix[Pt(53, 50)] > influenceMatrix[Pt(54, 50)]
  /\ influenceMatrix[Pt(56, 50)] > 0
  /\ influenceMatrix[Pt(57, 50)] = 0

\* ---- the age of the field (C16: SpecF)
\* C16: a step that replaces the field is its first construction or comes when the age of
\* the field, the tick minus the tick of its build, has reached INFLUENCE_REFRESH_TICKS;
\* the field is built at most once in a tick, and never by a read of the per-unit loop.
C16_RebuiltOnlyAtRefreshAge ==
  [][/\ lastInfluenceTick' # lastInfluenceTick =>
          \/ influenceMatrix = NullMatrix
          \/ lastInfluenceTick' - lastInfluenceTick >= INFLUENCE_REFRESH_TICKS
     /\ influenceMatrix' # influenceMatrix => lastInfluenceTick' # lastInfluenceTick
     /\ fieldBuilds' <= 1
     /\ pc = "units" => UNCHANGED <<influenceMatrix, lastInfluenceTick>>]_vars

\* the end of a tick in which loop() rebuilt a field of age INFLUENCE_REFRESH_TICKS and
\* a retreating creep then read it
C16_Witness ==
  /\ pc = "engine"
  /\ tick = 1 + INFLUENCE_REFRESH_TICKS
  /\ lastInfluenceTick = tick /\ fieldBuilds = 1
  /\ \E c \in retreating : readsField(c)

\* ---- focus selection (C17, C18: SpecT)
\* the pool that commandLayer hands to selectFocusTarget
candidates == IF engageable # <<>> THEN engageable ELSE enemies
\* threatScore without its hits ratio
partThreat(e) ==
  enemyCountActive(e, ATTACK) * ATTACK_POWER
    + enemyCountActive(e, RANGED_ATTACK) * RANGED_ATTACK_POWER
    + enemyCountActive(e, HEAL) * HEAL_POWER
\* a living enemy other than e, with active HEAL parts, is within 5 tiles of e
healerNear(e) ==
  \E h \in EnemyIds :
     /\ h # e /\ wEnemies[h].alive
     /\ enemyCountActive(h, HEAL) > 0
     /\ getRange(enemyPos[h], enemyPos[e]) <= 5
\* a and b are the two candidates, as far from the origin of the selection as each other
\* and of the same threat, a at 90 hits and b at 500
lowAndFull(a, b) ==
  /\ a # b /\ Range(candidates) = {a, b}
  /\ getRange(squadCentroid, enemyPos[a]) = getRange(squadCentroid, enemyPos[b])
  /\ partThreat(a) = partThreat(b)
  /\ wEnemies[a].hits = 90 /\ wEnemies[b].hits = 500

healedAndNot(a, b) ==
  /\ a # b /\ Range(candidates) = {a, b}
  /\ getRange(squadCentroid, enemyPos[a]) = getRange(squadCentroid, enemyPos[b])
  /\ wEnemies[a].body = wEnemies[b].body /\ wEnemies[a].hits = wEnemies[b].hits
  /\ threatsMedic(a) = threatsMedic(b)
  /\ ~healerNear(a) /\ healerNear(b)

\* C18: of two candidates that are equal but for an enemy healer within 5 tiles of one
\* of them, commandLayer makes the one without the healer the focus, whichever of the
\* two is first in the list.
C18_UnhealedEnemyIsFocus ==
  resolversRun =>
    \A a \in EnemyIds, b \in EnemyIds : healedAndNot(a, b) => globalFocusTarget = a

\* the candidate without a healer is second in the list and is the focus
C18_Witness ==
  /\ resolversRun
  /\ \E a \in EnemyIds, b \in EnemyIds :
       healedAndNot(a, b) /\ b < a /\ globalFocusTarget = a

\* ---- Scenario B (C19: SpecB)
\* creep c is a Ranger that can fire: it has an active RANGED_ATTACK part
rangedUnit(c) == creepRoles[c] = ROLE_RANGER /\ hasActive(c, RANGED_ATTACK)
enemiesAtRange1(c) == {e \in Range(enemies) : getRange(wPos[c], enemyPos[e]) <= 1}
\* the one owned creep is a ranged unit with three enemies within range 1, and its
\* executeTick has run
scenarioB(c) ==
  /\ myCreeps = <<c>> /\ rangedUnit(c)
  /\ Cardinality(enemiesAtRange1(c)) = 3
  /\ calls[c] # <<>>

\* C19: in Scenario B the combat resolver of the ranged unit issues rangedMassAttack,
\* whatever the hits of the three enemies and whichever of them is the focus.
C19_ScenarioBMassAttack ==
  \A c \in UnitIds : scenarioB(c) => combatAct[c] = Act("rangedMassAttack", None)

\* Scenario B with a damaged ranged unit, one of the enemies weaker than the others
C19_Witness ==
  \E c \in UnitIds :
     /\ scenarioB(c)
     /\ wHits[c] < HitsMax(c)
     /\ \E e \in EnemyIds : wEnemies[e].hits = 90 /\ globalFocusTarget = e
     /\ combatAct[c].kind = "rangedMassAttack"

\* ---- the order of a tick (C20: Spec)
\* the places of pass p in the log of this tick
placesOf(p) == {i \in DOMAIN passes : passes[i] = p}

\* C20: in the log of a tick the commander pass stands at most once, and once as soon as
\* the per-unit loop is reached; the snapshot, the influence refresh, the logistics
\* assignment, and the role re-evaluation when it is due, all stand before it and every
\* executeTick of a unit after it; and executeTick calls the combat resolver of a unit
\* first and its movement resolver, doMoveAction or the charger FSM, second.
C20_CommanderOnceBeforeUnits ==
  /\ Cardinality(placesOf("command")) <= 1
  /\ resolversRun => Cardinality(placesOf("command")) = 1
  /\ placesOf("unit") # {} => placesOf("command") # {}
  /\ \A i \in placesOf("command") :
        /\ \A p \in {"snapshot", "influence", "logistics"} :
              placesOf(p) # {} /\ \A j \in placesOf(p) : j < i
        /\ reevalDue => placesOf("reeval") # {}
        /\ \A j \in placesOf("reeval") : j < i
        /\ \A j \in placesOf("unit") : i < j
  /\ \A c \in UnitIds :
        calls[c] # <<>> =>
          /\ Len(calls[c]) = 2 /\ calls[c][1] = "combat" /\ calls[c][2] \in {"move", "charger"}
          /\ placesOf("command") # {}

\* the end of a tick of role re-evaluation in which a charger and a creep that is no
\* charger were resolved
C20_Witness ==
  /\ pc = "engine" /\ reevalDue
  /\ placesOf("reeval") # {}
  /\ Cardinality(placesOf("unit")) >= 2
  /\ \E c \in UnitIds, d \in UnitIds :
       calls[c] = <<"combat", "charger">> /\ calls[d] = <<"combat", "move">>

\* ---- the tank from tick to tick (C24: SpecK)
\* the incumbent is above the health floor of 40%
overFloor(c) == wHits[c] * 100 > 40 * PartHits * Len(wBody[c])

hungry(t) ==
  /\ wTowers[t].exists /\ wTowers[t].owner = "my"
  /\ wTowers[t].used * 100 < 80 * wTowers[t].cap
\* unit u could be bound to tower t: in the snapshot, an active carry part, within 12 tiles
carrierNear(u, t) ==
  /\ u \in Range(myCreeps)
  /\ \E i \in DOMAIN wBody[u] :
        wBody[u][i] = CARRY /\ PartHitsOf(Len(wBody[u]), wHits[u], i) > 0
  /\ Max2(Abs(wPos[u].x - TowerPos(t).x), Abs(wPos[u].y - TowerPos(t).y)) <= 12
someEnergy == \E c \in ContainerIds : wContainers[c] > 0
towerDist(u, t) == Max2(Abs(wPos[u].x - TowerPos(t).x), Abs(wPos[u].y - TowerPos(t).y))

C30_BoundTowersOwnedAndHungry ==
  pc = "command" => \A t \in TowerIds : towerChargeAssigned[t] # None => hungry(t)

\* ---- role starvation (C28, C29: SpecR)
livingWith(role) == {id \in Range(myCreeps) : creepRoles[id] = role}
meleeParts(id) == Cardinality({i \in DOMAIN wBody[id] : wBody[id][i] = ATTACK})
\* the Rangers with the most melee parts
topRangers ==
  {r \in livingWith(ROLE_RANGER) :
     \A o \in livingWith(ROLE_RANGER) : meleeParts(r) >= meleeParts(o)}
reevalPass == pc = "reeval" /\ tick > 1 /\ tick % 30 = 0

C29_OnePromotionToVanguard ==
  [][reevalPass
       => Cardinality({id \in UnitIds : creepRoles[id] # ROLE_VANGUARD
                                         /\ creepRoles'[id] = ROLE_VANGUARD}) <= 1]_vars

\* ---- the flag defence interceptor (C26: SpecD)
tilesApart(p, q) == Max2(Abs(p.x - q.x), Abs(p.y - q.y))
\* an owned flag with an enemy within 10 tiles and no owned unit that is no charger
\* within 5 tiles
undefended(f) ==
  /\ wFlagOwner[f] = "my"
  /\ \E e \in EnemyIds : wEnemies[e].alive /\ tilesApart(wEnemies[e].pos, FlagPos(f)) <= 10
  /\ ~ \E u \in Range(myCreeps) :
          chargerToTower[u] = None /\ tilesApart(wPos[u], FlagPos(f)) <= 5
\* the Vanguards and Rangers of the main army
guards ==
  {u \in Range(myCreeps) :
     creepRoles[u] \in {ROLE_VANGUARD, ROLE_RANGER} /\ chargerToTower[u] = None}
\* the guard closest to flag f, the first of the snapshot among equals
closestGuard(f) ==
  CHOOSE u \in guards :
    \A v \in guards :
       \/ tilesApart(wPos[u], FlagPos(f)) < tilesApart(wPos[v], FlagPos(f))
       \/ tilesApart(wPos[u], FlagPos(f)) = tilesApart(wPos[v], FlagPos(f)) /\ u <= v
sentTo(u, f) == creepTargets[u].kind = "flag" /\ creepTargets[u].id = f
unitsStart == pc = "units" /\ loopIdx = 1
\* the early phase with a neutral flag left: the army marches to a neutral flag
rushing == tick <= 150 /\ \E f \in FlagIds : wFlagOwner[f] = "neutral"
\* the guard is far from the squad and has three enemies around it: it is recalled
recalled(u) ==
  /\ tilesApart(wPos[u], squadCentroid) > 15
  /\ Cardinality({e \in EnemyIds :
                    wEnemies[e].alive /\ tilesApart(wEnemies[e].pos, wPos[u]) <= 12}) >= 3

\* C26 (as stated): when per-unit resolution starts, the guard closest to an undefended
\* owned flag has that flag as its movement target.
C26_ClosestGuardSent ==
  unitsStart =>
    \A f \in FlagIds : (undefended(f) /\ guards # {}) => sentTo(closestGuard(f), f)

\* C26 (amended): outside the flag rush the guard closest to an undefended owned flag has
\* that flag as its movement target, unless it is also the closest guard of a later
\* undefended owned flag or the straggler pass recalls it to the squad centroid; during
\* the flag rush no guard is sent and the closest guard marches with the army to a
\* neutral flag.
C26_ClosestGuardSentAfterRush ==
  unitsStart =>
    \A f \in FlagIds :
      (undefended(f) /\ guards # {}) =>
        IF rushing
        THEN /\ creepTargets[closestGuard(f)].kind = "flag"
             /\ wFlagOwner[creepTargets[closestGuard(f)].id] = "neutral"
        ELSE \/ sentTo(closestGuard(f), f)
             \/ \E g \in FlagIds :
                   g > f /\ undefended(g) /\ closestGuard(g) = closestGuard(f)
                     /\ (sentTo(closestGuard(f), g) \/ recalled(closestGuard(f)))
             \/ /\ recalled(closestGuard(f))
                /\ creepTargets[closestGuard(f)] = PointTarget(squadCentroid)

\* per-unit resolution starts after the rush with the home flag undefended, its closest
\* guard sent to it while the other guard keeps the objective of the army
C26_Witness ==
  /\ unitsStart /\ ~rushing
  /\ undefended(1)
  /\ sentTo(closestGuard(1), 1)
  /\ \E v \in guards : v # closestGuard(1) /\ creepTargets[v].kind = "point"

\* ---- the two slots of a unit (C22, C23, C27: SpecM)
attackVerbs == {"attack", "rangedAttack", "rangedMassAttack"}
healVerbs == {"heal", "rangedHeal"}
moveVerbs == {"move", "moveTo"}
\* the calls of creep c that resolver b made this tick
callsBy(c, b) == SelectSeq(issued[c], LAMBDA k : k.by = b)
\* executeTick ran for creep c this tick
resolved(c) == calls[c] # <<>>

\* C22: in one tick the combat resolver makes, for each unit, at most one call, which is
\* an attack or a heal, and never a movement call.
C22_CombatFillsOneSlot ==
  \A c \in UnitIds :
     /\ Len(callsBy(c, "combat")) <= 1
     /\ \A i \in DOMAIN callsBy(c, "combat") :
           /\ callsBy(c, "combat")[i].verb \in attackVerbs \cup healVerbs
           /\ callsBy(c, "combat")[i].verb \notin moveVerbs
\* a unit for which both resolvers made a call in the same tick
C22_Witness ==
  \E c \in UnitIds :
     /\ Len(callsBy(c, "combat")) = 1
     /\ callsBy(c, "combat")[1].verb \in attackVerbs
     /\ \E i \in DOMAIN callsBy(c, "move") : callsBy(c, "move")[i].verb \in moveVerbs

retreatGoals == {"flee", "medic", "homeFlag"}
\* the movement calls made for creep c are those of the emergency retreat
onlyRetreatMoves(c) ==
  \A i \in DOMAIN issued[c] :
     issued[c][i].verb \in moveVerbs =>
        /\ issued[c][i].rule = "P0"
        /\ issued[c][i].what \in retreatGoals
\* the pull-back test of the source, from the claim's side: hurt enough, no Medic adjacent
pullBackActive(c) == shouldPullBack(c)

\* C23: in a tick in which retreat is active for a unit, pull-back is not active for it
\* and every movement call made for it is the emergency retreat one (a flee step, a
\* move to the nearest Medic, a move to the home flag).
C23_RetreatDominates ==
  \A c \in retreating : ~pullBackActive(c) /\ onlyRetreatMoves(c)
\* C23, amended: the same for the units that are not bound to a tower as chargers, whose
\* move slot executeTick hands to behaviorCharger instead of doMoveAction.
C23_RetreatDominatesUnlessCharger ==
  \A c \in retreating : ~pullBackActive(c) /\ (movedBy[c] = "move" => onlyRetreatMoves(c))
\* a retreating Ranger, hurt enough for the pull-back and with no Medic adjacent, that
\* got the flee step
C23_Witness ==
  \E c \in retreating :
     /\ movedBy[c] = "move"
     /\ wHits[c] * 100 <= HitsMax(c) * PULLBACK_HP_RATIO
     /\ \A i \in DOMAIN myMedics : getRange(wPos[c], wPos[myMedics[i]]) > 1
     /\ \E i \in DOMAIN issued[c] : issued[c][i].rule = "P0" /\ issued[c][i].what = "flee"

\* no Vanguard is strictly closer than creep c to the enemy nearest to c
aheadOfScreen(c) ==
  /\ myVanguards # <<>>
  /\ enemies # <<>>
  /\ \A e \in Range(enemies) :
        (\A o \in Range(enemies) : getRange(wPos[c], enemyPos[e]) <= getRange(wPos[c], enemyPos[o])
                                     /\ (getRange(wPos[c], enemyPos[e]) = getRange(wPos[c], enemyPos[o]) => e <= o))
        => \A v \in Range(myVanguards) :
              getRange(wPos[v], enemyPos[e]) >= getRange(wPos[c], enemyPos[e])
\* the Medic holds, or its only movement call is a step to a Vanguard
holdsOrStepsToVanguard(c) ==
  \A i \in DOMAIN callsBy(c, "move") :
     /\ callsBy(c, "move")[i].what = "vanguard"
     /\ callsBy(c, "move")[i].id \in Range(myVanguards)
medicsMoved == {c \in Range(myMedics) : movedBy[c] = "move"}
\* an enemy with an active ATTACK part within 2 tiles of c that no Vanguard is closer to
meleeThreatNear(c) ==
  \E e \in Range(enemies) :
     /\ getRange(wPos[c], enemyPos[e]) <= 2
     /\ enemyCountActive(e, ATTACK) > 0
     /\ \A v \in Range(myVanguards) :
           getRange(wPos[v], enemyPos[e]) >= getRange(wPos[c], enemyPos[e])
\* another owned creep below 90% of its hits
allyHurt(c) == \E o \in Range(myCreeps) : o # c /\ wHits[o] * 100 < HitsMax(o) * 90

\* C27: whenever a Vanguard and an enemy are alive and no Vanguard is strictly closer
\* than a Medic to that Medic's nearest enemy, the movement resolver makes the Medic
\* hold or step toward a Vanguard, and sends it nowhere else.
C27_LeashedMedicHolds ==
  \A c \in medicsMoved : aheadOfScreen(c) => holdsOrStepsToVanguard(c)
\* C27, amended: the same for a Medic that reaches the follow rule, that is one that is
\* not retreating, has no melee threat within 2 tiles and no ally below 90% to go to.
C27_LeashedMedicHoldsWhenFollowing ==
  \A c \in medicsMoved :
     aheadOfScreen(c) /\ c \notin retreating /\ ~meleeThreatNear(c) /\ ~allyHurt(c)
        => holdsOrStepsToVanguard(c)
\* a Medic ahead of the screen, more than a tile from the Vanguard it follows, that got
\* the step to it
C27_Witness ==
  \E c \in medicsMoved :
     /\ aheadOfScreen(c) /\ c \notin retreating /\ ~meleeThreatNear(c) /\ ~allyHurt(c)
     /\ \E i \in DOMAIN callsBy(c, "move") :
           /\ callsBy(c, "move")[i].verb = "move"
           /\ callsBy(c, "move")[i].what = "vanguard"

\* ---- the order of the per-unit loop (C21: SpecO)
\* the snapshot list in every order
orders == {[i \in DOMAIN myCreeps |-> myCreeps[p[i]]] : p \in Permutations(DOMAIN myCreeps)}
loopStart == [c2t |-> chargerToTower, cs |-> chargerState, issued |-> issued]

\* C21: the calls made for each unit and the charger tables that the per-unit loop of a
\* tick leaves are the same in whatever order the loop visits the units.
C21_LoopOrderIrrelevant ==
  unitsStart => \A order \in orders : loopOver(order, loopStart) = loopOver(myCreeps, loopStart)
\* a loop that moves the FSM state of a charger, makes calls for two units, and can
\* visit them in more than one order
C21_Witness ==
  /\ unitsStart
  /\ Cardinality(orders) > 1
  /\ loopOver(myCreeps, loopStart).cs # chargerState
  /\ \E c \in UnitIds, d \in UnitIds :
        /\ c # d
        /\ loopOver(myCreeps, loopStart).issued[c] # <<>>
        /\ loopOver(myCreeps, loopStart).issued[d] # <<>>

====
